---- MODULE Spec2Model ----
(***************************************************************************)
(* Verification model of the foundryvtt_wod_v20_ru add-on.                 *)
(*                                                                         *)
(* The add-on is a set of independent hook callbacks.  Each group of       *)
(* callbacks is modelled as a state machine of its own over its own        *)
(* variables; a specification of one group keeps the variables of the      *)
(* other groups at their idle values.                                      *)
(*                                                                         *)
(*   SpecPos    scripts/hooks/actor-sheet-default-position.js              *)
(*              (persistent sheet position, lines 1-312)                   *)
(*   SpecLang   the three versions of the RU sheet width patch:            *)
(*              unnamed/part_001, unnamed/part_002, scripts/ru-width.js    *)
(*   SpecItem   scripts/hooks/item-config-checkboxes.js, with the          *)
(*              renderApplication hook of unnamed/part_001                 *)
(*   SpecCombat unnamed/part_005                                           *)
(***************************************************************************)
EXTENDS Integers, Sequences, FiniteSets, TLC

VARIABLES
    \* ---- sheet position persistence -----------------------------------
    flagMap,         \* game.user flag "actorSheetPositions" as getFlag returns it
    pendingWrites,   \* setFlag calls issued and not yet answered, oldest first
    position,        \* app.position of every sheet instance
    wrapped,         \* app[WRAPPED]
    timer,           \* the closure variable `timer` of wrapSetPosition: armed or not
    applying,        \* app[APPLYING_DEFAULT_RUNTIME_KEY]
    frames,          \* scheduled requestAnimationFrame callbacks per sheet instance
    armedByDefault,  \* history: the call that armed the timer was made with the runtime flag set
    defaultApplied,  \* history: runs of a hardcoded-default branch, per sheet class
    renders,         \* history: renderActorSheet events so far
    moves,           \* history: setPosition calls from outside the module so far
    \* ---- language marker classes --------------------------------------
    i18nLang,        \* game.i18n.lang, or "undefined", or "throws" when reading it throws
    docLang,         \* document.documentElement.lang, or "undefined"
    htmlClasses,     \* classList of <html>, in order
    rootClasses,     \* classList of the actor sheet's root element, in order
    langTrace,       \* history: the last hook run, the class lists before it, and
                     \* whether the same hook ran just before it
    \* ---- item sheet checkbox groups -----------------------------------
    itemDom,         \* the DOM of the rendered item sheet, root first
    itemType,        \* app.item.type, "" when it cannot be read
    itemTrace,       \* history: runs of the renderItemSheet hook on this DOM and the
                     \* DOM before the last run
    \* ---- combat table full text ---------------------------------------
    combatRows,      \* the combat rows of the rendered actor sheet
    actorItems,      \* actor.items
    combatTrace,      \* history: the last step, the rows before the last hook run,
                     \* whether that run reached the rows and whether it threw
    \* ---- shared logger -------------------------------------------------
    debugLogging,   \* the debugLogging setting: "true", "false", or "throws" when read
    console,        \* the console calls made so far, oldest first
    logTrace,        \* history: the last call of the logger, its outcome, the console before it
    \* ---- step runner and init debug flow -------------------------------
    stepSeq,        \* the module counter stepSeq
    stepTrace,      \* history: the last runStep call, its log calls and its outcome
    flow,            \* onInitDebug: the steps it ran and where it stands
    \* ---- template loader patch -----------------------------------------
    tplApi,         \* foundry.applications.handlebars: present or not, and its two properties
    tplGlobals,     \* globalThis.getTemplate and globalThis.loadTemplates
    tplTrace,        \* history: the last patch or the last call of a template function
    \* ---- jump override (scripts/hooks/movement-jump-quarter.js) --------
    jumpGame,       \* game: whether it is defined, and game.system.id
    actorProto,     \* Actor.prototype.prepareDerivedData: there or not, wrappers around it
    hooksPending,   \* the Hooks.once handlers that have not fired yet
    patchRuns,      \* runs of applyPatch so far
    actor,          \* one actor: system.shapes, system.movement, the rest of its data
    jumpTrace,       \* history: the last call of prepareDerivedData
    \* ---- notes level (scripts/hooks/actor-sheet-default-position.js, second part) ---
    notesRows,      \* the rows of the Notes list in the rendered sheet
    notesLevel,     \* item.system.level of the actor's item
    notesI18n,      \* game.i18n.localize: "ready", "missing" or "throws"
    notesFrames,    \* animation frames left before the scheduled patch runs; 0: none scheduled
    notesTrace,      \* history: what the last patch did with each row
    \* ---- module i18n loader (scripts/init-module.js) -------------------
    trStore,        \* game.i18n.translations: there or not, and its keys
    trTrace,         \* history: the last run of loadModuleTranslations
    \* ---- debounced persistence of one sheet, with time (hooks/actor-sheet-default-position.js) ---
    debNow,         \* the clock, in ms
    debPosition,    \* app.position of the sheet
    debApplying,    \* app[APPLYING_DEFAULT_RUNTIME_KEY]
    debTimer,       \* the timer of wrapSetPosition: armed or not, and when it is due
    debCalls,       \* history: the time of each wrappedSetPosition call
    debWrites,      \* history: each setSavedPosition call, when and with what
    debMoves        \* history: moves of the sheet that bypass the wrapper, and default applications

posVars == <<flagMap, pendingWrites, position, wrapped, timer, applying, frames,
             armedByDefault, defaultApplied, renders, moves>>

langVars == <<i18nLang, docLang, htmlClasses, rootClasses, langTrace>>

itemVars == <<itemDom, itemType, itemTrace>>

combatVars == <<combatRows, actorItems, combatTrace>>

\* the groups added for the logger, the init steps and the later hooks
logVars == <<debugLogging, console, logTrace>>
stepVars == <<stepSeq, stepTrace, flow>>
tplVars == <<tplApi, tplGlobals, tplTrace>>
jumpVars == <<jumpGame, actorProto, hooksPending, patchRuns, actor, jumpTrace>>
notesVars == <<notesRows, notesLevel, notesI18n, notesFrames, notesTrace>>
trVars == <<trStore, trTrace>>
debVars == <<debNow, debPosition, debApplying, debTimer, debCalls, debWrites, debMoves>>
newVars == <<logVars, stepVars, tplVars, jumpVars, notesVars, trVars, debVars>>
notLog == <<posVars, langVars, itemVars, combatVars, stepVars, tplVars, jumpVars, notesVars, trVars, debVars>>
notStep == <<posVars, langVars, itemVars, combatVars, logVars, tplVars, jumpVars, notesVars, trVars, debVars>>
notTpl == <<posVars, langVars, itemVars, combatVars, logVars, stepVars, jumpVars, notesVars, trVars, debVars>>
notJump == <<posVars, langVars, itemVars, combatVars, logVars, stepVars, tplVars, notesVars, trVars, debVars>>
notNotes == <<posVars, langVars, itemVars, combatVars, logVars, stepVars, tplVars, jumpVars, trVars, debVars>>
notTr == <<posVars, langVars, itemVars, combatVars, logVars, stepVars, tplVars, jumpVars, notesVars, debVars>>
notDeb == <<posVars, langVars, itemVars, combatVars, logVars, stepVars, tplVars, jumpVars, notesVars, trVars>>
notLogTpl == <<posVars, langVars, itemVars, combatVars, stepVars, jumpVars, notesVars, trVars, debVars>>
notLogJump == <<posVars, langVars, itemVars, combatVars, stepVars, tplVars, notesVars, trVars, debVars>>
notLogNotes == <<posVars, langVars, itemVars, combatVars, stepVars, tplVars, jumpVars, trVars, debVars>>
notLogTr == <<posVars, langVars, itemVars, combatVars, stepVars, tplVars, jumpVars, notesVars, debVars>>
notLangJump == <<posVars, itemVars, combatVars, logVars, stepVars, tplVars, notesVars, trVars, debVars>>
notLangTr == <<posVars, itemVars, combatVars, logVars, stepVars, tplVars, jumpVars, notesVars, debVars>>

vars == <<posVars, langVars, itemVars, combatVars, newVars>>

\* what the hooks of one group leave alone: the variables of the other groups
notPos == <<langVars, itemVars, combatVars, newVars>>
notLang == <<posVars, itemVars, combatVars, newVars>>
notItem == <<posVars, langVars, combatVars, newVars>>
notCombat == <<posVars, htmlClasses, docLang, rootClasses, langTrace, itemVars, newVars>>

(***************************************************************************)
(* JavaScript values.  A value is a record [t, n]: t is its type tag and n *)
(* its number when it has one.  Absent is a property that is not there.    *)
(***************************************************************************)
Num(k) == [t |-> "number", n |-> k]
NumStr(k) == [t |-> "numstr", n |-> k]
NaN == [t |-> "nan", n |-> 0]
Infinity == [t |-> "infinity", n |-> 0]
Undefined == [t |-> "undefined", n |-> 0]
Null == [t |-> "null", n |-> 0]
Str == [t |-> "string", n |-> 0]
True == [t |-> "boolean", n |-> 1]
False == [t |-> "boolean", n |-> 0]
Absent == [t |-> "absent", n |-> 0]

\* Number(v)
ToNumber(v) ==
    CASE v.t = "number" -> v
      [] v.t = "numstr" -> Num(v.n)
      [] v.t = "null" -> Num(0)
      [] v.t = "boolean" -> Num(v.n)
      [] v.t = "infinity" -> Infinity
      [] OTHER -> NaN

\* Number.isFinite(v): no coercion, true of finite numbers only
IsFiniteNumber(v) == v.t = "number"

Min(x, y) == IF x <= y THEN x ELSE y
Max(x, y) == IF x >= y THEN x ELSE y

(***************************************************************************)
(* Sheet position persistence: constants of the source.                    *)
(***************************************************************************)
DEFAULT_LEFT == 100
DEFAULT_TOP == 5
CLAMP_MARGIN == 10
FallbackWidth == 900
FallbackHeight == 720

\* Bounds of the model.
MaxPending == 2
MaxDefaultApplied == 2
MaxRenders == 2
MaxMoves == 1

\* Sheet instances and the name of their constructor.
Apps == {"s1", "s2"}
SheetClassOf(a) == "WerewolfActorSheet"
SheetClasses == {SheetClassOf(a) : a \in Apps}
\* sheetClass.includes("ActorSheet")
IncludesActorSheet(c) == c \in {"WerewolfActorSheet"}

NoRecord == [left |-> Absent, top |-> Absent, width |-> Absent, height |-> Absent,
             migratedDefaultV2 |-> Absent, userMovedV1 |-> Absent, none |-> TRUE]
Rec(l, t, w, h, m, u) ==
    [left |-> l, top |-> t, width |-> w, height |-> h,
     migratedDefaultV2 |-> m, userMovedV1 |-> u, none |-> FALSE]

\* clamp(v, min, max) on the numbers the caller passes
clamp(v, lo, hi) == Min(Max(v, lo), hi)

\* getViewportSize(): Number(window.innerWidth ?? 0) || 0
Viewports == {[w |-> 1920, h |-> 1080], [w |-> 400, h |-> 300]}

\* element.getBoundingClientRect(): absent when there is no element
Rects == {[width |-> Absent, height |-> Absent],
          [width |-> Num(750), height |-> Num(500)]}

\* app.options.width / height
Options == {[width |-> Num(780), height |-> Str]}

PositiveOrNull(v) ==
    IF IsFiniteNumber(ToNumber(v)) /\ ToNumber(v).n > 0 THEN ToNumber(v) ELSE Null

\* a ?? b ?? c ?? d
Coalesce(a, b, c, d) ==
    IF a.t \notin {"null", "undefined"} THEN a
    ELSE IF b.t \notin {"null", "undefined"} THEN b
    ELSE IF c.t \notin {"null", "undefined"} THEN c
    ELSE d

getSheetMetrics(pos, rect, opt) ==
    [width |-> Coalesce(PositiveOrNull(rect.width), PositiveOrNull(pos.width),
                        PositiveOrNull(opt.width), Num(FallbackWidth)).n,
     height |-> Coalesce(PositiveOrNull(rect.height), PositiveOrNull(pos.height),
                         PositiveOrNull(opt.height), Num(FallbackHeight)).n]

\* the hardcoded target with the viewport clamp
TargetLeft(viewport, sheet) ==
    clamp(DEFAULT_LEFT, CLAMP_MARGIN,
          Max(CLAMP_MARGIN, viewport.w - sheet.width - CLAMP_MARGIN))
TargetTop(viewport, sheet) ==
    clamp(DEFAULT_TOP, CLAMP_MARGIN,
          Max(CLAMP_MARGIN, viewport.h - sheet.height - CLAMP_MARGIN))

\* normalizeAppPosition without the fallback to 0: Number(p.left) as it comes
normalizeAppPosition_NoFallback(p) ==
    [left |-> ToNumber(p.left),
     top |-> ToNumber(p.top),
     width |-> IF IsFiniteNumber(ToNumber(p.width)) THEN ToNumber(p.width) ELSE Undefined,
     height |-> IF IsFiniteNumber(ToNumber(p.height)) THEN ToNumber(p.height) ELSE Undefined]

normalizeAppPosition(p) ==
    [left |-> IF IsFiniteNumber(ToNumber(p.left)) THEN ToNumber(p.left) ELSE Num(0),
     top |-> IF IsFiniteNumber(ToNumber(p.top)) THEN ToNumber(p.top) ELSE Num(0),
     width |-> IF IsFiniteNumber(ToNumber(p.width)) THEN ToNumber(p.width) ELSE Undefined,
     height |-> IF IsFiniteNumber(ToNumber(p.height)) THEN ToNumber(p.height) ELSE Undefined]

\* the record setSavedPosition stores for pos, with pos[MIGRATION_KEY] = m and
\* pos[USER_MOVED_KEY] = u
Payload(pos, m, u) ==
    Rec(pos.left, pos.top,
        IF IsFiniteNumber(pos.width) THEN pos.width ELSE Absent,
        IF IsFiniteNumber(pos.height) THEN pos.height ELSE Absent,
        IF m = True THEN True ELSE Absent,
        IF u = True THEN True ELSE Absent)

\* the setFlag call of setSavedPosition: the map read now, with the class's entry
\* replaced.  source and byDefault are history fields.
SavedWrite(cls, pos, m, u, source, byDefault) ==
    [cls |-> cls, map |-> [flagMap EXCEPT ![cls] = Payload(pos, m, u)],
     source |-> source, byDefault |-> byDefault]

\* getSavedPosition: what applySavedOrHardDefault sees of the stored entry
getSavedPosition(cls) ==
    LET v == flagMap[cls] IN
    IF v.none THEN NoRecord
    ELSE Rec(ToNumber(v.left), ToNumber(v.top),
             IF IsFiniteNumber(ToNumber(v.width)) THEN ToNumber(v.width) ELSE Undefined,
             IF IsFiniteNumber(ToNumber(v.height)) THEN ToNumber(v.height) ELSE Undefined,
             IF v.migratedDefaultV2 = True THEN True ELSE Absent,
             IF v.userMovedV1 = True THEN True ELSE Absent)

\* the argument of app.setPosition built from a saved record and a left/top
Request(l, t, saved) ==
    [left |-> l, top |-> t,
     width |-> IF IsFiniteNumber(saved.width) THEN saved.width ELSE Absent,
     height |-> IF IsFiniteNumber(saved.height) THEN saved.height ELSE Absent]

\* original(position) of the host: the fields given replace those of app.position
\* when the host honours the call, and nothing changes when it does not
Original(p, request, honoured) ==
    IF honoured
    THEN [f \in {"left", "top", "width", "height"} |->
             IF request[f] = Absent THEN p[f] ELSE request[f]]
    ELSE p

\* app.position of a sheet the host has just opened
OpeningPosition ==
    [left |-> Num(300), top |-> Num(200), width |-> Num(900), height |-> Num(720)]

\* positions a caller outside the module leaves in app.position
HostPositions ==
    {[left |-> Num(520), top |-> Num(200), width |-> Num(900), height |-> Num(720)],
     [left |-> NaN, top |-> Undefined, width |-> Str, height |-> Infinity]}

\* entries found in the flag at start-up: none, or one an earlier session stored
InitialRecords ==
    {NoRecord,
     Rec(NumStr(300), Num(200), Str, Num(720), Absent, Absent),
     Rec(Num(300), Num(200), Num(900), Num(720), Absent, True)}

PosInit ==
    /\ flagMap \in [SheetClasses -> InitialRecords]
    /\ pendingWrites = <<>>
    /\ position = [a \in Apps |-> OpeningPosition]
    /\ wrapped = [a \in Apps |-> FALSE]
    /\ timer = [a \in Apps |-> FALSE]
    /\ applying = [a \in Apps |-> FALSE]
    /\ frames = [a \in Apps |-> 0]
    /\ armedByDefault = [a \in Apps |-> FALSE]
    /\ defaultApplied = [c \in SheetClasses |-> 0]
    /\ renders = 0
    /\ moves = 0

\* Hooks.on("renderActorSheet"): wrapSetPosition, then schedule applySavedOrHardDefault
RenderActorSheetPos(a) ==
    /\ IncludesActorSheet(SheetClassOf(a))
    /\ renders < MaxRenders
    /\ renders' = renders + 1
    /\ wrapped' = [wrapped EXCEPT ![a] = TRUE]
    /\ frames' = [frames EXCEPT ![a] = @ + 1]
    /\ UNCHANGED <<flagMap, pendingWrites, position, timer, applying, armedByDefault,
                   defaultApplied, moves, notPos>>

\* wrappedSetPosition(request): the host's original, then the timer is cleared and
\* armed again.  flag is app[APPLYING_DEFAULT_RUNTIME_KEY] during the call.
WrappedSetPosition(a, request, honoured, flag) ==
    /\ position' = [position EXCEPT ![a] = Original(@, request, honoured)]
    /\ timer' = [timer EXCEPT ![a] = TRUE]
    /\ armedByDefault' = [armedByDefault EXCEPT ![a] = flag]

\* a call of app.setPosition from outside the module (a drag, a resize, the host)
SetPosition(a, p) ==
    /\ moves < MaxMoves
    /\ moves' = moves + 1
    /\ IF wrapped[a]
       THEN WrappedSetPosition(a, p, TRUE, applying[a])
       ELSE /\ position' = [position EXCEPT ![a] = p]
            /\ UNCHANGED <<timer, armedByDefault>>
    /\ UNCHANGED <<flagMap, pendingWrites, wrapped, applying, frames, defaultApplied,
                   renders, notPos>>

\* the branch applySavedOrHardDefault takes on a saved record
Branch(saved) ==
    IF ~saved.none /\ IsFiniteNumber(saved.left) /\ IsFiniteNumber(saved.top)
    THEN IF saved.userMovedV1 = True THEN "userMoved"
         ELSE IF saved.migratedDefaultV2 # True THEN "migrate"
         ELSE "migrated"
    ELSE "default"

\* the animation frame callback: applySavedOrHardDefault up to its setFlag call
ApplySavedOrHardDefault(a, viewport, rect, opt, honoured) ==
    LET cls == SheetClassOf(a)
        sheet == getSheetMetrics(position[a], rect, opt)
        targetLeft == TargetLeft(viewport, sheet)
        targetTop == TargetTop(viewport, sheet)
        saved == getSavedPosition(cls)
        branch == Branch(saved)
    IN
    /\ frames[a] > 0
    /\ frames' = [frames EXCEPT ![a] = @ - 1]
    /\ UNCHANGED <<flagMap, wrapped, renders, moves, notPos>>
    /\ IF branch \in {"userMoved", "migrated"}
       THEN /\ WrappedSetPosition(a, Request(saved.left, saved.top, saved), honoured,
                                  applying[a])
            /\ UNCHANGED <<pendingWrites, applying, defaultApplied>>
       ELSE LET request == IF branch = "migrate"
                           THEN Request(Num(targetLeft), Num(targetTop), saved)
                           ELSE Request(Num(targetLeft), Num(targetTop), NoRecord)
                pos == normalizeAppPosition(Original(position[a], request, honoured))
            IN
            /\ defaultApplied[cls] < MaxDefaultApplied
            /\ Len(pendingWrites) < MaxPending
            /\ WrappedSetPosition(a, request, honoured, TRUE)
            /\ applying' = [applying EXCEPT ![a] = FALSE]
            /\ defaultApplied' = [defaultApplied EXCEPT ![cls] = @ + 1]
            /\ pendingWrites' =
                   Append(pendingWrites, SavedWrite(cls, pos, True, False, "apply", TRUE))

\* the debounce timer of wrappedSetPosition fires
TimerFires(a) ==
    LET cls == SheetClassOf(a)
        pos == normalizeAppPosition(position[a])
        isApplyingDefault == applying[a] = TRUE
    IN
    /\ timer[a]
    /\ Len(pendingWrites) < MaxPending
    /\ timer' = [timer EXCEPT ![a] = FALSE]
    /\ pendingWrites' =
           Append(pendingWrites,
                  IF isApplyingDefault
                  THEN SavedWrite(cls, pos, True, False, "timer", armedByDefault[a])
                  ELSE SavedWrite(cls, pos, Absent, True, "timer", armedByDefault[a]))
    /\ UNCHANGED <<flagMap, position, wrapped, applying, frames, armedByDefault,
                   defaultApplied, renders, moves, notPos>>

\* the host answers the oldest setFlag call: the flag now holds the value passed
FlagWriteLands ==
    /\ pendingWrites # <<>>
    /\ flagMap' = Head(pendingWrites).map
    /\ pendingWrites' = Tail(pendingWrites)
    /\ UNCHANGED <<position, wrapped, timer, applying, frames, armedByDefault,
                   defaultApplied, renders, moves, notPos>>

\* the oldest setFlag call rejects: setSavedPosition catches it and warns
FlagWriteFails ==
    /\ pendingWrites # <<>>
    /\ pendingWrites' = Tail(pendingWrites)
    /\ UNCHANGED <<flagMap, position, wrapped, timer, applying, frames, armedByDefault,
                   defaultApplied, renders, moves, notPos>>

PosNext ==
    \/ \E a \in Apps : RenderActorSheetPos(a)
    \/ \E a \in Apps, p \in HostPositions : SetPosition(a, p)
    \/ \E a \in Apps, viewport \in Viewports, rect \in Rects, opt \in Options,
          honoured \in BOOLEAN :
          ApplySavedOrHardDefault(a, viewport, rect, opt, honoured)
    \/ \E a \in Apps : TimerFires(a)
    \/ FlagWriteLands
    \/ FlagWriteFails


(***************************************************************************)
(* Language marker classes: the RU sheet width patch.                      *)
(*                                                                         *)
(* A class name is the sequence of its characters, so that the pattern     *)
(* /^lang[A-Z]{2}$/ is computed on it.  A classList is a sequence of       *)
(* distinct class names in the order of the DOMTokenList.                  *)
(***************************************************************************)
LANG_CLASS == <<"l", "a", "n", "g", "R", "U">>
NO_SPLAT_CLASS == <<"n", "o", "S", "p", "l", "a", "t", "F", "o", "n", "t">>
langEN == <<"l", "a", "n", "g", "E", "N">>
langDE == <<"l", "a", "n", "g", "D", "E">>
langLower == <<"l", "a", "n", "g", "r", "u">>
langLong == <<"l", "a", "n", "g", "E", "N", "G">>
sheetClass == <<"s", "h", "e", "e", "t">>

UpperCase == {"A", "B", "C", "D", "E", "F", "G", "H", "I", "J", "K", "L", "M",
              "N", "O", "P", "Q", "R", "S", "T", "U", "V", "W", "X", "Y", "Z"}

\* LANG_CLASS_RE.test(cls), LANG_CLASS_RE = /^lang[A-Z]{2}$/
LANG_CLASS_RE(cls) ==
    /\ Len(cls) = 6
    /\ SubSeq(cls, 1, 4) = <<"l", "a", "n", "g">>
    /\ cls[5] \in UpperCase
    /\ cls[6] \in UpperCase

\* classList.contains / add / remove
Contains(list, cls) == \E i \in 1..Len(list) : list[i] = cls
Add(list, cls) == IF Contains(list, cls) THEN list ELSE Append(list, cls)
Remove(list, cls) == SelectSeq(list, LAMBDA c : c # cls)

\* Bound of the model: the longest class list the host puts on an element.
MaxClasses == 2

\* class names other code puts on a sheet root
ClassNames == {LANG_CLASS, NO_SPLAT_CLASS, langEN, langLower, langLong, sheetClass}

\* class lists found on <html>
HtmlClassLists == {<<>>, <<langEN>>, <<sheetClass, LANG_CLASS>>,
                   <<langDE, langLower, LANG_CLASS, langEN>>}

\* getLang() of part_001: safe(() => game.i18n?.lang, null) ?? <html lang> ?? "en"
\* getLang() of part_002 and ru-width.js has the same value: there safe() falls
\* back to <html lang> itself.
getLang ==
    LET fromGame == IF i18nLang = "throws" THEN "undefined" ELSE i18nLang
    IN IF fromGame # "undefined" THEN fromGame
       ELSE IF docLang # "undefined" THEN docLang
       ELSE "en"

\* normalizeLangClassesForRU(root): the class list it leaves
\* the version that only adds langRU and removes nothing
normalizeLangClassesForRU_AddOnly(list) == Add(list, LANG_CLASS)

normalizeLangClassesForRU(list) ==
    Add(SelectSeq(list, LAMBDA cls : ~(LANG_CLASS_RE(cls) /\ cls # LANG_CLASS)), LANG_CLASS)

\* syncDocumentLangClass(): the class list it leaves on <html>
\* the version that never removes langRU
syncDocumentLangClass_RuOnly(list) ==
    IF getLang = "ru" THEN normalizeLangClassesForRU(list) ELSE list

\* the version that clears the other markers and adds none
syncDocumentLangClass_NoAdd(list) ==
    IF getLang = "ru"
    THEN SelectSeq(list, LAMBDA cls : ~(LANG_CLASS_RE(cls) /\ cls # LANG_CLASS))
    ELSE IF Contains(list, LANG_CLASS) THEN Remove(list, LANG_CLASS)
    ELSE list

syncDocumentLangClass(list) ==
    IF getLang = "ru" THEN normalizeLangClassesForRU(list)
    ELSE IF Contains(list, LANG_CLASS) THEN Remove(list, LANG_CLASS)
    ELSE list

\* what the three versions of the renderActorSheet hook leave on the sheet root
rootAfterSync(list) ==
    IF getLang = "ru"
    THEN Add(normalizeLangClassesForRU(list), NO_SPLAT_CLASS)
    ELSE list

\* a version that clears langRU for other languages, as ru-width.js does
rootAfterNormalize_Clearing(list) ==
    IF getLang = "ru" THEN normalizeLangClassesForRU(list) ELSE Remove(list, LANG_CLASS)

rootAfterNormalize(list) ==
    IF getLang = "ru" THEN normalizeLangClassesForRU(list) ELSE list

rootAfterToggle(list) ==
    IF getLang = "ru" THEN Add(list, LANG_CLASS) ELSE Remove(list, LANG_CLASS)

LangTrace(op) ==
    [op |-> op, root |-> rootClasses, html |-> htmlClasses, again |-> langTrace.op = op]

LangInit ==
    /\ i18nLang \in {"ru", "en", "ru-RU", "undefined", "throws"}
    /\ docLang \in {"ru", "undefined"}
    /\ htmlClasses \in HtmlClassLists
    /\ rootClasses = <<>>
    /\ langTrace = [op |-> "none", root |-> <<>>, html |-> <<>>, again |-> FALSE]

\* other code (the host, the game system) adds a class to the sheet root
HostAddsRootClass(cls) ==
    /\ Len(rootClasses) < MaxClasses
    /\ ~Contains(rootClasses, cls)
    /\ rootClasses' = Add(rootClasses, cls)
    /\ langTrace' = [op |-> "host", root |-> <<>>, html |-> <<>>, again |-> FALSE]
    /\ UNCHANGED <<i18nLang, docLang, htmlClasses, notLang>>

\* other code removes a class from the sheet root
HostRemovesRootClass(cls) ==
    /\ Contains(rootClasses, cls)
    /\ rootClasses' = Remove(rootClasses, cls)
    /\ langTrace' = [op |-> "host", root |-> <<>>, html |-> <<>>, again |-> FALSE]
    /\ UNCHANGED <<i18nLang, docLang, htmlClasses, notLang>>

\* other code changes the classes of <html>
HostSetsHtmlClasses(list) ==
    /\ htmlClasses' = list
    /\ langTrace' = [op |-> "host", root |-> <<>>, html |-> <<>>, again |-> FALSE]
    /\ UNCHANGED <<i18nLang, docLang, rootClasses, notLang>>

\* part_001, Hooks.once("ready")
Ready ==
    /\ langTrace.op = "none"
    /\ htmlClasses' = syncDocumentLangClass(htmlClasses)
    /\ langTrace' = LangTrace("ready")
    /\ UNCHANGED <<i18nLang, docLang, rootClasses, notLang>>

\* part_001, Hooks.on("renderApplication")
RenderApplication ==
    /\ htmlClasses' = syncDocumentLangClass(htmlClasses)
    /\ langTrace' = LangTrace("renderApplication")
    /\ UNCHANGED <<i18nLang, docLang, rootClasses, notLang>>

\* part_001, Hooks.on("renderActorSheet"); hasRoot: the render supplies a root element
RenderActorSheetSync(hasRoot) ==
    /\ IF ~hasRoot
       THEN /\ UNCHANGED <<htmlClasses, rootClasses>>
            /\ langTrace' = LangTrace("renderActorSheetSync:noRoot")
       ELSE /\ htmlClasses' = syncDocumentLangClass(htmlClasses)
            /\ rootClasses' = rootAfterSync(rootClasses)
            /\ langTrace' = LangTrace("renderActorSheetSync")
    /\ UNCHANGED <<i18nLang, docLang, notLang>>

\* part_002, Hooks.on("renderActorSheet")
RenderActorSheetNormalize(hasRoot) ==
    /\ IF ~hasRoot
       THEN /\ UNCHANGED rootClasses
            /\ langTrace' = LangTrace("renderActorSheetNormalize:noRoot")
       ELSE /\ rootClasses' = rootAfterNormalize(rootClasses)
            /\ langTrace' = LangTrace("renderActorSheetNormalize")
    /\ UNCHANGED <<i18nLang, docLang, htmlClasses, notLang>>

\* ru-width.js, Hooks.on("renderActorSheet"): adds or removes langRU only
RenderActorSheetToggle(hasRoot) ==
    /\ IF ~hasRoot
       THEN /\ UNCHANGED rootClasses
            /\ langTrace' = LangTrace("renderActorSheetToggle:noRoot")
       ELSE /\ rootClasses' = rootAfterToggle(rootClasses)
            /\ langTrace' = LangTrace("renderActorSheetToggle")
    /\ UNCHANGED <<i18nLang, docLang, htmlClasses, notLang>>

LangNext ==
    \/ \E cls \in ClassNames : HostAddsRootClass(cls)
    \/ \E cls \in ClassNames : HostRemovesRootClass(cls)
    \/ \E list \in HtmlClassLists : HostSetsHtmlClasses(list)
    \/ Ready
    \/ RenderApplication
    \/ \E hasRoot \in BOOLEAN : RenderActorSheetSync(hasRoot)
    \/ \E hasRoot \in BOOLEAN : RenderActorSheetNormalize(hasRoot)
    \/ \E hasRoot \in BOOLEAN : RenderActorSheetToggle(hasRoot)

(***************************************************************************)
(* Item sheet checkbox groups: item-config-checkboxes.js.                  *)
(*                                                                         *)
(* The DOM is a sequence of nodes; a node's id is its index and node 1 is  *)
(* the sheet root.  A node has a tag ("#text" for a text node), a set of   *)
(* classes, the name attribute of an input, its text (a text node's data,  *)
(* an element's textContent when the code sets it) as a sequence of words  *)
(* in which " " is white space, and the ids of its children in order.      *)
(* createElement appends a node that no node has as a child.               *)
(***************************************************************************)
CLASS_INFOBOX == "wodru-checkbox-infobox"
CLASS_LIST == "wodru-checkbox-list"
CLASS_ROW == "wodru-checkbox-row"
CLASS_LABEL == "wodru-checkbox-label"

Root == 1

Element(tag, classes, name) ==
    [tag |-> tag, classes |-> classes, name |-> name, text |-> <<>>, kids |-> <<>>]
TextNode(text) ==
    [tag |-> "#text", classes |-> {}, name |-> "", text |-> text, kids |-> <<>>]

IndexOf(list, x) == CHOOSE i \in 1..Len(list) : list[i] = x
InList(list, x) == \E i \in 1..Len(list) : list[i] = x

\* node.parentNode, 0 when there is none
ParentOf(d, x) ==
    LET ps == {p \in 1..Len(d) : InList(d[p].kids, x)}
    IN IF ps = {} THEN 0 ELSE CHOOSE p \in ps : TRUE

\* the nodes below a list of siblings, in document order
RECURSIVE Preorder(_, _)
Preorder(d, list) ==
    IF list = <<>> THEN <<>>
    ELSE <<Head(list)>> \o Preorder(d, d[Head(list)].kids) \o Preorder(d, Tail(list))

FirstOrNone(list) == IF list = <<>> THEN 0 ELSE Head(list)

\* x.querySelector('input[type="checkbox"][name="..."]')
querySelectorInput(d, x, name) ==
    FirstOrNone(SelectSeq(Preorder(d, d[x].kids),
                          LAMBDA n : d[n].tag = "input" /\ d[n].name = name))

\* x.querySelector("label")
querySelectorLabel(d, x) ==
    FirstOrNone(SelectSeq(Preorder(d, d[x].kids), LAMBDA n : d[n].tag = "label"))

\* x.closest("." + cls)
RECURSIVE closest(_, _, _)
closest(d, x, cls) ==
    IF x = 0 THEN 0
    ELSE IF cls \in d[x].classes THEN x
    ELSE closest(d, ParentOf(d, x), cls)

\* x.isConnected
RECURSIVE isConnected(_, _)
isConnected(d, x) ==
    \/ x = Root
    \/ ParentOf(d, x) # 0 /\ isConnected(d, ParentOf(d, x))

\* x.remove()
RECURSIVE Detach(_, _)
Detach(d, x) ==
    IF d = <<>> THEN <<>>
    ELSE <<[Head(d) EXCEPT !.kids = SelectSeq(@, LAMBDA k : k # x)]>> \o Detach(Tail(d), x)

\* p.appendChild(x): x leaves the place it had
appendChild(d, p, x) ==
    LET d1 == Detach(d, x) IN [d1 EXCEPT ![p].kids = Append(@, x)]

\* p.prepend(x)
prepend(d, p, x) ==
    LET d1 == Detach(d, x) IN [d1 EXCEPT ![p].kids = <<x>> \o @]

\* ref.insertAdjacentElement("afterend", x)
insertAfter(d, ref, x) ==
    LET d1 == Detach(d, x)
        p == ParentOf(d1, ref)
        i == IndexOf(d1[p].kids, ref)
    IN [d1 EXCEPT ![p].kids = SubSeq(@, 1, i) \o <<x>> \o SubSeq(@, i + 1, Len(@))]

addClass(d, x, cls) == [d EXCEPT ![x].classes = @ \cup {cls}]

\* String.prototype.trim on a sequence of words
RECURSIVE trimStart(_)
trimStart(text) ==
    IF text # <<>> /\ Head(text) = " " THEN trimStart(Tail(text)) ELSE text
RECURSIVE trimEnd(_)
trimEnd(text) ==
    IF text # <<>> /\ text[Len(text)] = " "
    THEN trimEnd(SubSeq(text, 1, Len(text) - 1))
    ELSE text
trim(text) == trimEnd(trimStart(text))

\* the siblings after x, in order
SiblingsAfter(d, x) ==
    LET p == ParentOf(d, x)
    IN IF p = 0 THEN <<>>
       ELSE SubSeq(d[p].kids, IndexOf(d[p].kids, x) + 1, Len(d[p].kids))

\* the text nodes that follow up to the next element
RECURSIVE TextRun(_, _)
TextRun(d, list) ==
    IF list = <<>> \/ d[Head(list)].tag # "#text" THEN <<>>
    ELSE <<Head(list)>> \o TextRun(d, Tail(list))

RECURSIVE TextOf(_, _)
TextOf(d, list) ==
    IF list = <<>> THEN <<>> ELSE d[Head(list)].text \o TextOf(d, Tail(list))

RECURSIVE DetachAll(_, _)
DetachAll(d, list) ==
    IF list = <<>> THEN d ELSE DetachAll(Detach(d, Head(list)), Tail(list))

\* extractLabelTextFromSiblings(inputEl): the DOM it leaves and the text it returns
extractLabelTextFromSiblings(d, input) ==
    LET run == TextRun(d, SiblingsAfter(d, input))
    IN [dom |-> DetachAll(d, run), text |-> trim(TextOf(d, run))]

\* isAlreadyProcessed(container)
\* the test that would look at the list the input is already in
isAlreadyProcessed(d, container) == CLASS_LIST \in d[container].classes

\* ensureRow(container, inputEl)
ensureRow(d, container, input) ==
    LET d1 == Append(d, Element("div", {CLASS_ROW}, ""))
        row == Len(d1)
        ex == extractLabelTextFromSiblings(d1, input)
        d2 == Append(ex.dom, [Element("span", {CLASS_LABEL}, "") EXCEPT !.text = ex.text])
        labelSpan == Len(d2)
    IN appendChild(appendChild(appendChild(d2, row, input), row, labelSpan), container, row)

RECURSIVE ensureRows(_, _, _)
ensureRows(d, container, inputs) ==
    IF inputs = <<>> THEN d
    ELSE ensureRows(IF isConnected(d, Head(inputs))
                    THEN ensureRow(d, container, Head(inputs))
                    ELSE d,
                    container, Tail(inputs))

\* processGroupByNames(root, names, { containerMode })
processGroupByNames(d, names, containerMode) ==
    LET inputs == SelectSeq([i \in 1..Len(names) |-> querySelectorInput(d, Root, names[i])],
                            LAMBDA x : x # 0)
    IN
    IF inputs = <<>> THEN d
    ELSE
    LET infobox == closest(d, inputs[1], "infobox") IN
    IF infobox = 0 THEN d
    ELSE
    LET d1 == addClass(d, infobox, CLASS_INFOBOX)
        parent == ParentOf(d1, inputs[1])
        useParent == containerMode = "auto" /\ parent # 0 /\ parent # infobox
        created == Append(d1, Element("div", {}, ""))
        label == querySelectorLabel(d1, infobox)
        d2 == IF useParent THEN d1
              ELSE IF label # 0 THEN insertAfter(created, label, Len(created))
              ELSE prepend(created, infobox, Len(created))
        container == IF useParent THEN parent ELSE Len(created)
    IN IF isAlreadyProcessed(d2, container) THEN d2
       ELSE ensureRows(addClass(d2, container, CLASS_LIST), container, inputs)

ModeNames == <<"system.mode.hasreload", "system.mode.hasburst",
               "system.mode.hasfullauto", "system.mode.hasspray">>
FormNames == <<"system.forms.hashomid", "system.forms.hasglabro",
               "system.forms.hascrinos", "system.forms.hashispo",
               "system.forms.haslupus">>

\* isRu(): safe(() => game.i18n?.lang === "ru", false)
isRu == i18nLang = "ru"

\* the renderItemSheet hook: the DOM it leaves
renderItemSheet(d, hasRoot) ==
    IF ~isRu \/ ~hasRoot \/ itemType = "" THEN d
    ELSE LET d1 == IF itemType = "Ranged Weapon"
                   THEN processGroupByNames(d, ModeNames, "auto")
                   ELSE d
         IN IF itemType = "Armor" THEN processGroupByNames(d1, FormNames, "create") ELSE d1

\* Bound of the model: runs of the hook on one rendered DOM.
MaxHookRuns == 2

(* The item sheets the host renders.  The checkboxes of the group stand in   *)
(* an .infobox (or in a box without that class), after a <label> or not,    *)
(* inside a wrapper <div> or directly in the box; each is followed by its   *)
(* label as a text node, or by nothing.                                     *)
child(d, p, node) == [Append(d, node) EXCEPT ![p].kids = Append(@, Len(d) + 1)]

RECURSIVE withInputs(_, _, _, _)
withInputs(d, holder, names, withText) ==
    IF names = <<>> THEN d
    ELSE LET d1 == child(d, holder, Element("input", {}, Head(names)))
             d2 == IF withText
                   THEN child(d1, holder, TextNode(<<" ", Head(names), " ">>))
                   ELSE d1
         IN withInputs(d2, holder, Tail(names), withText)

Template(names, boxed, labelled, wrapper, withText) ==
    LET d1 == <<Element("div", {"app", "sheet"}, "")>>
        d2 == child(d1, Root, Element("div", IF boxed THEN {"infobox"} ELSE {"row"}, ""))
        box == Len(d2)
        d3 == IF labelled THEN child(d2, box, Element("label", {}, "")) ELSE d2
        d4 == IF wrapper THEN child(d3, box, Element("div", {}, "")) ELSE d3
        holder == IF wrapper THEN Len(d4) ELSE box
    IN withInputs(d4, holder, names, withText)

\* the checkboxes the template of an item type renders, some of them left out
GroupsOf(type) ==
    LET all == IF type = "Armor" THEN FormNames ELSE ModeNames
    IN {all, Tail(all), <<>>}

ItemTypes == {"Ranged Weapon", "Armor", "Melee Weapon", ""}

ItemInit ==
    /\ itemType \in ItemTypes
    /\ \E names \in GroupsOf(itemType), boxed, labelled, wrapper, withText \in BOOLEAN :
          itemDom = Template(names, boxed, labelled, wrapper, withText)
    /\ itemTrace = [runs |-> 0, before |-> <<>>]

\* Hooks.on("renderItemSheet"); hasRoot: the render supplies a root element
RenderItemSheet(hasRoot) ==
    /\ itemTrace.runs < MaxHookRuns
    /\ itemDom' = renderItemSheet(itemDom, hasRoot)
    /\ itemTrace' = [runs |-> itemTrace.runs + 1, before |-> itemDom]
    /\ UNCHANGED <<itemType, notItem>>

ItemNext ==
    \/ \E hasRoot \in BOOLEAN : RenderItemSheet(hasRoot)
    \/ RenderApplication

(***************************************************************************)
(* Combat table full text: unnamed/part_005.                               *)
(*                                                                         *)
(* A combat row is one element matched by the hook's selector; the rows    *)
(* are disjoint subtrees.  A row keeps its data-fulltext-applied marker,   *)
(* the place of its data-itemid attribute (on the row, on an element       *)
(* inside it, nowhere), the attribute's value, whether an element inside   *)
(* it has the class dragrow, and its name and ability cells.  A cell is    *)
(* absent, plain text, or wraps an input; its text is the textContent or   *)
(* the input's value, fullText is dataset.fullText and full is             *)
(* dataset.fullName or dataset.fullAbility.                                *)
(***************************************************************************)
RowOrder == <<"r1", "r2">>
Rows == {RowOrder[i] : i \in 1..Len(RowOrder)}
ItemIds == {"i1"}

NoItem == [exists |-> FALSE, name |-> "", ability |-> ""]
Item(name, ability) == [exists |-> TRUE, name |-> name, ability |-> ability]
ItemStates == {NoItem, Item("Klaive", "melee"), Item("Grand Klaive", "custom"), Item("", "")}

Cell(kind) == [kind |-> kind, text |-> IF kind = "absent" THEN "" ELSE "Gr...",
               fullText |-> "", full |-> ""]

\* the rows the system's templates render: no marker, shortened texts
RowShapes ==
    {[marker |-> FALSE, idOn |-> idOn, itemId |-> itemId, dragClass |-> dragClass,
      name |-> Cell(cells[1]), ability |-> Cell(cells[2])] :
        idOn \in {"row", "nested"}, itemId \in {"", "i1"}, dragClass \in BOOLEAN,
        cells \in {<<"text", "text">>, <<"input", "absent">>, <<"absent", "text">>}}
    \cup
    {[marker |-> FALSE, idOn |-> "none", itemId |-> "", dragClass |-> dragClass,
      name |-> Cell("text"), ability |-> Cell("text")] : dragClass \in BOOLEAN}

\* resolveItemId(row)
resolveItemId(row) ==
    IF row.idOn = "row" /\ row.itemId # "" THEN row.itemId
    ELSE IF row.idOn # "nested" THEN ""
    ELSE row.itemId

\* row.querySelector(".dragrow[data-itemid], .dragrow[data-item-id], .dragrow")
\*   || row.querySelector("[data-itemid], [data-item-id]")
hasDragRow(row) == row.dragClass \/ row.idOn = "nested"

\* setCellText(cell, text) with a cell and a text that are there
setCellText(cell, text) == [cell EXCEPT !.text = text, !.fullText = text]

\* game.i18n.localize: the translation of a known key, the key itself otherwise
localize(key) == IF key = "wod.abilities.melee" THEN "Fehtovanie" ELSE key

\* Handlebars.helpers.getAbility of the system
getAbility(ability) == IF ability = "melee" THEN "wod.abilities.melee" ELSE ability

\* computeAttackAbilityLabel(item, actor); helpers: the system's Handlebars helpers
\* are "present", "absent", or "throw" when called; sec: what getSecondaryAbility
\* returns
computeAttackAbilityLabel(item, helpers, sec) ==
    IF item.ability = "" THEN [threw |-> FALSE, label |-> ""]
    ELSE IF helpers = "throw" THEN [threw |-> TRUE, label |-> ""]
    ELSE IF item.ability = "custom"
    THEN [threw |-> FALSE, label |-> IF helpers = "present" THEN sec ELSE ""]
    ELSE [threw |-> FALSE,
          label |-> localize(IF helpers = "present" THEN getAbility(item.ability)
                             ELSE item.ability)]

\* the version that rewrites a row whatever its marker says
alreadyApplied_Never(row) == FALSE

\* row.dataset.fulltextApplied === "true"
alreadyApplied(row) == row.marker

\* the body of rows.forEach: the row it leaves and whether it threw
processRow(row, helpers, sec) ==
    LET itemId == resolveItemId(row)
        item == IF itemId \in ItemIds THEN actorItems[itemId] ELSE NoItem
        named == IF row.name.kind # "absent" /\ item.name # ""
                 THEN [row EXCEPT !.name = [setCellText(@, item.name) EXCEPT !.full = item.name]]
                 ELSE row
        computed == computeAttackAbilityLabel(item, helpers, sec)
    IN IF alreadyApplied(row) \/ itemId = "" \/ ~item.exists \/ ~hasDragRow(row)
       THEN [row |-> row, threw |-> FALSE]
       ELSE IF row.ability.kind = "absent"
       THEN [row |-> [named EXCEPT !.marker = TRUE], threw |-> FALSE]
       ELSE IF computed.threw THEN [row |-> named, threw |-> TRUE]
       ELSE IF computed.label = ""
       THEN [row |-> [named EXCEPT !.marker = TRUE], threw |-> FALSE]
       ELSE [row |-> [named EXCEPT
                        !.ability = [setCellText(@, computed.label) EXCEPT
                                       !.full = computed.label],
                        !.marker = TRUE],
             threw |-> FALSE]

\* rows.forEach(...) inside try: an exception ends the loop
RECURSIVE forEachRow(_, _, _, _)
forEachRow(rows, order, helpers, sec) ==
    IF order = <<>> THEN [rows |-> rows, threw |-> FALSE]
    ELSE LET done == processRow(rows[Head(order)], helpers, sec)
             rows1 == [rows EXCEPT ![Head(order)] = done.row]
         IN IF done.threw THEN [rows |-> rows1, threw |-> TRUE]
            ELSE forEachRow(rows1, Tail(order), helpers, sec)

CombatInit ==
    /\ combatRows \in [Rows -> RowShapes]
    /\ actorItems \in [ItemIds -> ItemStates]
    /\ combatTrace = [op |-> "none", before |-> combatRows, ran |-> FALSE, threw |-> FALSE]
    /\ i18nLang \in {"ru", "en", "throws"}

\* Hooks.on("renderActorSheet") of the combat hook
RenderActorSheetCombat(hasActor, hasRoot, helpers, sec) ==
    LET ran == i18nLang = "ru" /\ hasActor /\ hasRoot
        done == forEachRow(combatRows, RowOrder, helpers, sec)
    IN /\ combatRows' = IF ran THEN done.rows ELSE combatRows
       /\ combatTrace' = [op |-> "hook", before |-> combatRows, ran |-> ran,
                          threw |-> ran /\ done.threw]
       /\ UNCHANGED <<actorItems, i18nLang, notCombat>>

\* the host renders the sheet again: the rows are new elements of the same shape
HostRendersCombatRows ==
    /\ \E r \in Rows : combatRows[r].marker
    /\ combatRows' = [r \in Rows |->
                        [combatRows[r] EXCEPT !.marker = FALSE,
                                              !.name = Cell(@.kind),
                                              !.ability = Cell(@.kind)]]
    /\ combatTrace' = [op |-> "host", before |-> combatRows, ran |-> FALSE, threw |-> FALSE]
    /\ UNCHANGED <<actorItems, i18nLang, notCombat>>

\* an item of the actor is created, changed or deleted
ActorItemChanges(id, item) ==
    /\ actorItems[id] # item
    /\ actorItems' = [actorItems EXCEPT ![id] = item]
    /\ combatTrace' = [combatTrace EXCEPT !.op = "item"]
    /\ UNCHANGED <<combatRows, i18nLang, notCombat>>

CombatNext ==
    \/ \E hasActor, hasRoot \in BOOLEAN, helpers \in {"present", "absent", "throw"},
          sec \in {"", "Kung fu"} :
          RenderActorSheetCombat(hasActor, hasRoot, helpers, sec)
    \/ HostRendersCombatRows
    \/ \E id \in ItemIds, item \in ItemStates : ActorItemChanges(id, item)

(***************************************************************************)
(* Shared logger: scripts/logger/core.js.                                  *)
(*                                                                         *)
(* A data argument is "undefined", "plain" (JSON.stringify gives a string),*)
(* "function" (JSON.stringify gives undefined), "circular" (JSON.stringify *)
(* throws, String does not) or "hostile" (both throw).  A console call is  *)
(* a record of its level and of the parts of its text.                     *)
(***************************************************************************)
TAG == "[wod-v20-ru][debug]"

LogData == {"undefined", "plain", "function", "circular", "hostile"}
LogFns == {"info", "debug", "warn", "error", "debugNs"}

\* Bound of the model: console calls kept before the console is cleared.
MaxConsole == 2

\* isDebugEnabled(): a read that throws counts as false
isDebugEnabled == debugLogging = "true"

\* toJson(data) without the fallback on String(data)
toJson_NoFallback(data) ==
    IF data = "undefined" THEN [threw |-> FALSE, text |-> ""]
    ELSE IF data = "plain" THEN [threw |-> FALSE, text |-> "json"]
    ELSE IF data = "function" THEN [threw |-> FALSE, text |-> "undefined"]
    ELSE IF data = "circular" THEN [threw |-> FALSE, text |-> "string"]
    ELSE [threw |-> TRUE, text |-> ""]

\* toJson(data)
toJson(data) ==
    IF data = "undefined" THEN [threw |-> FALSE, text |-> ""]
    ELSE IF data = "plain" THEN [threw |-> FALSE, text |-> "json"]
    ELSE IF data = "function" THEN [threw |-> FALSE, text |-> "undefined"]
    ELSE IF data = "circular" THEN [threw |-> FALSE, text |-> "string"]
    ELSE [threw |-> FALSE, text |-> "[unstringifiable]"]

\* log(level, msg, data): the console it leaves and whether it threw;
\* msg is the text of the message as a sequence of parts
log(cons, level, msg, data) ==
    IF ~isDebugEnabled THEN [console |-> cons, threw |-> FALSE]
    ELSE IF data = "undefined"
    THEN [console |-> Append(cons, [level |-> level, text |-> <<TAG, "now">> \o msg]),
          threw |-> FALSE]
    ELSE IF toJson(data).threw THEN [console |-> cons, threw |-> TRUE]
    ELSE [console |-> Append(cons, [level |-> level,
                                    text |-> <<TAG, "now">> \o msg \o <<toJson(data).text>>]),
          threw |-> FALSE]

\* info, debug, warn, error, debugNs
LevelOf(fn) == IF fn = "debugNs" THEN "debug" ELSE fn
MessageOf(fn, msg) == IF fn = "debugNs" THEN <<"[ns]", msg>> ELSE <<msg>>

\* what a function passed to safe() does: it returns a value or throws one.
\* A thrown "Error" has a stack; a thrown "string" or "null" has none; String()
\* of a thrown "hostile" value throws (an object without toString, or one whose
\* toString throws).
SafeFns ==
    {[kind |-> "returns", value |-> v] : v \in {"a", "undefined"}}
    \cup {[kind |-> "throws", value |-> e] : e \in {"Error", "string", "null", "hostile"}}
Fallbacks == {"undefined", "fb"}

\* safe(fn, fallback): the console it leaves, whether it threw, what it returned
safe(cons, fn, fallback) ==
    IF fn.kind = "returns" THEN [console |-> cons, threw |-> FALSE, value |-> fn.value]
    ELSE IF fn.value = "hostile" THEN [console |-> cons, threw |-> TRUE, value |-> ""]
    ELSE LET warned == log(cons, "warn", <<"safe() caught">>, "plain")
         IN [console |-> warned.console, threw |-> warned.threw, value |-> fallback]

LogInit ==
    /\ debugLogging \in {"true", "false", "throws"}
    /\ console = <<>>
    /\ logTrace = [op |-> "none", level |-> "", data |-> "", threw |-> FALSE,
                   value |-> "", expect |-> "", before |-> <<>>]

\* a call of info, debug, warn, error or debugNs
LoggerCall(fn, msg, data) ==
    LET done == log(console, LevelOf(fn), MessageOf(fn, msg), data)
    IN /\ Len(console) < MaxConsole
       /\ console' = done.console
       /\ logTrace' = [op |-> fn, level |-> LevelOf(fn), data |-> data, threw |-> done.threw,
                       value |-> "", expect |-> "", before |-> console]
       /\ UNCHANGED <<debugLogging, notLog>>

\* a call of safe(fn, fallback)
SafeCall(fn, fallback) ==
    LET done == safe(console, fn, fallback)
    IN /\ Len(console) < MaxConsole
       /\ console' = done.console
       /\ logTrace' = [op |-> "safe", level |-> "warn", data |-> fn.kind, threw |-> done.threw,
                       value |-> done.value,
                       expect |-> IF fn.kind = "returns" THEN fn.value ELSE fallback,
                       before |-> console]
       /\ UNCHANGED <<debugLogging, notLog>>

\* the user changes the setting, or the settings stop or start being readable
SettingChanges(v) ==
    /\ debugLogging # v
    /\ debugLogging' = v
    /\ logTrace' = [logTrace EXCEPT !.op = "setting"]
    /\ UNCHANGED <<console, notLog>>

\* the console is cleared
ConsoleCleared ==
    /\ console # <<>>
    /\ console' = <<>>
    /\ logTrace' = [logTrace EXCEPT !.op = "cleared"]
    /\ UNCHANGED <<debugLogging, notLog>>

LogNext ==
    \/ \E fn \in LogFns, data \in LogData : LoggerCall(fn, "msg", data)
    \/ \E fn \in SafeFns, fallback \in Fallbacks : SafeCall(fn, fallback)
    \/ \E v \in {"true", "false", "throws"} : SettingChanges(v)
    \/ ConsoleCleared

(***************************************************************************)
(* Step runner: unnamed/part_000 and unnamed/part_007, with the init debug *)
(* flow onInitDebug of unnamed/part_007.                                   *)
(*                                                                         *)
(* A step function returns (or resolves with) a value, or throws (or       *)
(* rejects with) one; String() of a thrown "hostile" value throws.  A call *)
(* of runStep is one step: nothing of this module runs between its parts.  *)
(* calls are the calls of info and error it makes, whatever the debug      *)
(* setting lets through to the console.                                    *)
(***************************************************************************)
StepFns ==
    {[kind |-> "returns", value |-> v] : v \in {"res", "undefined"}}
    \cup {[kind |-> "throws", value |-> e] : e \in {"Error", "string", "hostile"}}

\* Bound of the model: calls of runStep.
MaxStepSeq == 6

\* runStep(name, fn, { fatal }) with id = ++stepSeq: its log calls and its outcome
runStep(id, name, fn, fatal) ==
    IF fn.kind = "returns"
    THEN [calls |-> <<[fn |-> "info", step |-> "BEGIN", id |-> id, name |-> name],
                      [fn |-> "info", step |-> "OK", id |-> id, name |-> name]>>,
          result |-> [kind |-> "resolved", value |-> fn.value]]
    ELSE IF fn.value = "hostile"
    THEN [calls |-> <<[fn |-> "info", step |-> "BEGIN", id |-> id, name |-> name]>>,
          result |-> [kind |-> "rejected", value |-> "TypeError"]]
    ELSE [calls |-> <<[fn |-> "info", step |-> "BEGIN", id |-> id, name |-> name],
                      [fn |-> "error", step |-> "FAIL", id |-> id, name |-> name]>>,
          result |-> IF fatal THEN [kind |-> "rejected", value |-> fn.value]
                     ELSE [kind |-> "resolved", value |-> "null"]]

\* the steps of onInitDebug, in order
InitSteps ==
    <<[name |-> "installGlobalErrorHooks", fatal |-> TRUE],
      [name |-> "dumpCoreState(init)", fatal |-> TRUE],
      [name |-> "patchTemplateLoaders", fatal |-> FALSE],
      [name |-> "registerDebugHooks", fatal |-> TRUE]>>

StepTrace(name, fatal, fn, done) ==
    [op |-> "runStep", name |-> name, fatal |-> fatal, fn |-> fn,
     calls |-> done.calls, result |-> done.result]

StepInit ==
    /\ stepSeq = 0
    /\ stepTrace = [op |-> "none", name |-> "", fatal |-> TRUE,
                    fn |-> [kind |-> "returns", value |-> "undefined"],
                    calls |-> <<>>, result |-> [kind |-> "none", value |-> ""]]
    /\ flow = [status |-> "idle", ran |-> <<>>]

\* a call of runStep outside the init flow
RunStep(name, fn, fatal) ==
    /\ stepSeq < MaxStepSeq
    /\ flow.status # "running"
    /\ stepSeq' = stepSeq + 1
    /\ stepTrace' = StepTrace(name, fatal, fn, runStep(stepSeq + 1, name, fn, fatal))
    /\ UNCHANGED <<flow, notStep>>

\* Hooks.once("init", onInitDebug): on is what enabled() returns
OnInitDebug(on) ==
    /\ flow.status = "idle"
    /\ flow' = [status |-> IF on THEN "running" ELSE "off", ran |-> <<>>]
    /\ stepTrace' = [stepTrace EXCEPT !.op = "init"]
    /\ UNCHANGED <<stepSeq, notStep>>

\* the next await runStep(...) of onInitDebug; a rejected step ends the flow
InitFlowStep(fn) ==
    LET step == InitSteps[Len(flow.ran) + 1]
        done == runStep(stepSeq + 1, step.name, fn, step.fatal)
        ran == Append(flow.ran, [name |-> step.name, failed |-> fn.kind = "throws"])
    IN /\ flow.status = "running"
       /\ stepSeq < MaxStepSeq
       /\ stepSeq' = stepSeq + 1
       /\ stepTrace' = StepTrace(step.name, step.fatal, fn, done)
       /\ flow' = [status |-> IF done.result.kind = "rejected" THEN "rejected"
                              ELSE IF Len(ran) = Len(InitSteps) THEN "completed"
                              ELSE "running",
                   ran |-> ran]
       /\ UNCHANGED notStep

StepNext ==
    \/ \E name \in {"a step"}, fn \in StepFns, fatal \in BOOLEAN : RunStep(name, fn, fatal)
    \/ \E on \in BOOLEAN : OnInitDebug(on)
    \/ \E fn \in StepFns : InitFlowStep(fn)

(***************************************************************************)
(* Template loader patch: unnamed/part_003.                                *)
(*                                                                         *)
(* A property (getTemplate, loadTemplates) of the namespaced API or of     *)
(* globalThis is a slot: its kind says what the property is and wraps how  *)
(* many logging wrappers stand around the host's function.  Kinds:         *)
(*   missing        not there, or not a function                           *)
(*   writable       a writable data property of an extensible object       *)
(*   readonly       a data property that is not writable (frozen object)   *)
(*   getterOnly     an accessor without a setter                           *)
(*   setterStores   an accessor whose setter stores the value              *)
(*   setterThrows   an accessor whose setter throws                        *)
(*   notExtensible  a writable descriptor, found on a prototype of an      *)
(*                  object that cannot take the property, or on a module   *)
(*                  namespace: the descriptor says writable, the           *)
(*                  assignment throws                                      *)
(* The file is an ES module, so a failed assignment throws a TypeError.    *)
(***************************************************************************)
TplProps == {"getTemplate", "loadTemplates"}
SlotKinds == {"missing", "writable", "readonly", "getterOnly", "setterStores",
              "setterThrows", "notExtensible"}
Slot(kind) == [kind |-> kind, wraps |-> 0]

\* Bound of the model: wrappers around one function.
MaxWraps == 2

\* typeof target[prop] === "function"
isFunction(slot) == slot.kind # "missing"

\* canAssignProperty(obj, prop) for a property that is a function
canAssignProperty(slot) ==
    IF slot.kind \in {"writable", "notExtensible"} THEN [ok |-> TRUE, reason |-> "writable"]
    ELSE IF slot.kind = "readonly" THEN [ok |-> FALSE, reason |-> "read-only-data"]
    ELSE IF slot.kind = "getterOnly" THEN [ok |-> FALSE, reason |-> "read-only-accessor"]
    ELSE [ok |-> TRUE, reason |-> "setter-present"]

\* target[prop] = wrapper, in strict mode: does the assignment throw
assignThrows(slot) == slot.kind \notin {"writable", "setterStores"}

\* patchTemplateFns for one property: the slot it leaves, the flag, the skip reason
patchProp(slot) ==
    IF ~isFunction(slot)
    THEN [slot |-> slot, patched |-> FALSE, skipped |-> "missing-or-not-function"]
    ELSE IF ~canAssignProperty(slot).ok
    THEN [slot |-> slot, patched |-> FALSE, skipped |-> canAssignProperty(slot).reason]
    ELSE IF assignThrows(slot)
    THEN [slot |-> slot, patched |-> FALSE, skipped |-> "assign-throw"]
    ELSE [slot |-> [slot EXCEPT !.wraps = @ + 1], patched |-> TRUE, skipped |-> ""]

\* patchTemplateFns(target, label)
patchTemplateFns(target) ==
    [p \in TplProps |-> patchProp(target[p])]

\* the object { getTemplate: globalThis.getTemplate, loadTemplates: ... }
globalsCopy(globals) ==
    [p \in TplProps |-> IF isFunction(globals[p]) THEN [globals[p] EXCEPT !.kind = "writable"]
                        ELSE globals[p]]

\* if (globals.getTemplate) globalThis.getTemplate = globals.getTemplate; and the
\* same for loadTemplates: the globals they leave and whether an assignment threw
writeBack(globals, copy) ==
    LET g == "getTemplate"
        l == "loadTemplates"
        gThrows == isFunction(globals[g]) /\ assignThrows(globals[g])
        g1 == IF isFunction(globals[g]) /\ ~gThrows
              THEN [globals EXCEPT ![g].wraps = copy[g].wraps]
              ELSE globals
        lThrows == ~gThrows /\ isFunction(globals[l]) /\ assignThrows(globals[l])
        g2 == IF ~gThrows /\ isFunction(globals[l]) /\ ~lThrows
              THEN [g1 EXCEPT ![l].wraps = copy[l].wraps]
              ELSE g1
    IN [globals |-> g2, threw |-> gThrows \/ lThrows]

\* patchTemplateLoaders(): the path it takes, what it leaves, what it reports
patchTemplateLoaders(api, globals) ==
    IF api.present /\ \E p \in TplProps : isFunction(api.props[p])
    THEN LET res == patchTemplateFns(api.props)
         IN [path |-> "namespaced", threw |-> FALSE,
             api |-> [api EXCEPT !.props = [p \in TplProps |-> res[p].slot]],
             globals |-> globals,
             patched |-> [p \in TplProps |-> res[p].patched],
             skipped |-> [p \in TplProps |-> res[p].skipped]]
    ELSE IF \E p \in TplProps : isFunction(globals[p])
    THEN LET res == patchTemplateFns(globalsCopy(globals))
             back == writeBack(globals, [p \in TplProps |-> res[p].slot])
         IN [path |-> "global", threw |-> back.threw,
             api |-> api,
             globals |-> back.globals,
             patched |-> [p \in TplProps |-> res[p].patched],
             skipped |-> [p \in TplProps |-> res[p].skipped]]
    ELSE [path |-> "none", threw |-> FALSE, api |-> api, globals |-> globals,
          patched |-> [p \in TplProps |-> FALSE],
          skipped |-> [p \in TplProps |-> "no known API"]]

\* the first argument of a call: an array, a string, an object whose toString
\* throws an Error ("throwsError"), or an object whose toString throws a value
\* that String() cannot convert ("throwsHostile"); the host's function resolves
\* or rejects
TplPaths == {"array", "string", "throwsError", "throwsHostile"}
TplOutcomes == {[kind |-> "resolved", value |-> "template"],
                [kind |-> "rejected", value |-> "Error"]}

\* the logging of one wrapper, patchedGetTemplate or patchedLoadTemplates: the
\* console it leaves and whether it lets an exception out
wrapperLogs(cons, prop, paths) ==
    IF prop = "getTemplate"
    THEN log(cons, "debug", <<"getTemplate">>,
             IF paths \in {"array", "string"} THEN "plain" ELSE "circular")
    ELSE IF paths \in {"array", "string"}
    THEN log(cons, "debug", <<"loadTemplates">>, "plain")
    ELSE IF paths = "throwsError"
    THEN log(cons, "warn", <<"loadTemplates logging failed">>, "plain")
    ELSE [console |-> cons, threw |-> TRUE]

\* a call through wraps wrappers: the calls of the host's function it makes, the
\* console it leaves, and its outcome
RECURSIVE callWrapped(_, _, _, _, _, _)
callWrapped(cons, wraps, prop, receiver, paths, outcome) ==
    IF wraps = 0
    THEN [original |-> <<[receiver |-> receiver, paths |-> paths]>>, console |-> cons,
          result |-> outcome]
    ELSE LET logged == wrapperLogs(cons, prop, paths)
         IN IF logged.threw
            THEN [original |-> <<>>, console |-> logged.console,
                  result |-> [kind |-> "rejected", value |-> "TypeError"]]
            ELSE callWrapped(logged.console, wraps - 1, prop, receiver, paths, outcome)

\* the host offers the namespaced API, or only the global functions, or neither;
\* patchTemplateLoaders reads the globals only when the namespaced API has no
\* function, so they are left out when it has one
TplInit ==
    /\ \/ /\ tplApi \in {[present |-> TRUE, props |-> f] :
                            f \in [TplProps -> {Slot(k) : k \in SlotKinds}]}
          /\ \E p \in TplProps : isFunction(tplApi.props[p])
          /\ tplGlobals = [p \in TplProps |-> Slot("missing")]
       \/ /\ tplApi \in {[present |-> q, props |-> [p \in TplProps |-> Slot("missing")]] :
                            q \in BOOLEAN}
          /\ tplGlobals \in [TplProps -> {Slot(k) : k \in SlotKinds \ {"notExtensible"}}]
    /\ tplTrace = [op |-> "none"]

\* what patchTemplateLoaders logs at its end: info when a property was patched,
\* warn when none was, nothing when it threw before
patchReport(cons, done) ==
    IF done.threw THEN cons
    ELSE IF done.path = "none"
    THEN log(cons, "warn", <<"Template patch skipped (no known API found)">>, "undefined").console
    ELSE IF \E p \in TplProps : done.patched[p]
    THEN log(cons, "info", <<"Template patch applied", done.path>>, "plain").console
    ELSE log(cons, "warn", <<"Template patch skipped", done.path>>, "plain").console

\* patchTemplateLoaders()
PatchTemplateLoaders ==
    LET done == patchTemplateLoaders(tplApi, tplGlobals)
    IN /\ \A p \in TplProps : tplApi.props[p].wraps < MaxWraps /\ tplGlobals[p].wraps < MaxWraps
       /\ Len(console) < MaxConsole
       /\ tplApi' = done.api
       /\ tplGlobals' = done.globals
       /\ console' = patchReport(console, done)
       /\ tplTrace' = [op |-> "patch", path |-> done.path, threw |-> done.threw,
                       patched |-> done.patched, skipped |-> done.skipped,
                       api |-> tplApi, globals |-> tplGlobals]
       /\ UNCHANGED <<debugLogging, logTrace, notLogTpl>>

\* a call of the function found at a property of the namespaced API ("api") or of
\* globalThis ("global")
CallTemplateFn(where, prop, receiver, paths, outcome) ==
    LET slot == IF where = "api" THEN tplApi.props[prop] ELSE tplGlobals[prop]
        done == callWrapped(console, slot.wraps, prop, receiver, paths, outcome)
    IN /\ isFunction(slot)
       /\ where = "api" => tplApi.present
       /\ console = <<>>
       /\ console' = done.console
       /\ tplTrace' = [op |-> "call", prop |-> prop, wraps |-> slot.wraps,
                       receiver |-> receiver, paths |-> paths, outcome |-> outcome,
                       original |-> done.original, result |-> done.result]
       /\ UNCHANGED <<tplApi, tplGlobals, debugLogging, logTrace, notLogTpl>>

TplNext ==
    \/ PatchTemplateLoaders
    \/ \E where \in {"api", "global"}, prop \in TplProps, receiver \in {"api", "undefined"},
          paths \in TplPaths, outcome \in TplOutcomes :
          CallTemplateFn(where, prop, receiver, paths, outcome)
    \/ \E v \in {"true", "false", "throws"} : SettingChanges(v)
    \/ ConsoleCleared

(***************************************************************************)
(* Jump override: scripts/hooks/movement-jump-quarter.js and the constants *)
(* of unnamed/part_004.                                                    *)
(*                                                                         *)
(* Jump distances are held in tenths: Num(8) stands for 0.8.  The system's *)
(* original prepareDerivedData is not part of this repository; a call of   *)
(* it is an input: the movement object it leaves, the rest of the derived  *)
(* data it leaves, and the value it returns.                               *)
(***************************************************************************)
ShapeOrder == <<"glabro", "crinos", "hispo", "lupus">>
ShapeNames == {ShapeOrder[i] : i \in 1..Len(ShapeOrder)}

\* the system's base jump values, in whole units
BaseJump(shape) ==
    CASE shape = "glabro" -> [vjump |-> 3, hjump |-> 4]
      [] shape = "crinos" -> [vjump |-> 4, hjump |-> 5]
      [] shape = "hispo" -> [vjump |-> 5, hjump |-> 6]
      [] shape = "lupus" -> [vjump |-> 4, hjump |-> 7]
      [] OTHER -> [vjump |-> 2, hjump |-> 4]

\* base / 4 rounded to one decimal place, in tenths: round(base * 10 / 4)
QuarterTenths(base) == (5 * base + 1) \div 2

\* JUMP_DEFAULT, JUMP_GLABRO, JUMP_CRINOS, JUMP_HISPO, JUMP_LUPUS
JUMP_DEFAULT == [vjump |-> Num(5), hjump |-> Num(10)]
JUMP_GLABRO == [vjump |-> Num(8), hjump |-> Num(10)]
JUMP_CRINOS == [vjump |-> Num(10), hjump |-> Num(13)]
JUMP_HISPO == [vjump |-> Num(13), hjump |-> Num(15)]
JUMP_LUPUS == [vjump |-> Num(10), hjump |-> Num(18)]

TARGET_SYSTEM == "worldofdarkness"

\* String(game?.i18n?.lang ?? "").toLowerCase()
toLowerCase(lang) ==
    CASE lang = "undefined" -> ""
      [] lang = "RU" -> "ru"
      [] lang = "ru-RU" -> "ru-ru"
      [] OTHER -> lang

\* lang.startsWith("ru")
startsWithRu(lang) == lang \in {"ru", "ru-ru"}

\* isRuUi()
isRuUi == startsWithRu(toLowerCase(i18nLang)) \/ Contains(htmlClasses, LANG_CLASS)

\* pickJumpConstantsForActor(actor) looking at lupus first
pickJumpConstantsForActor_LupusFirst(a) ==
    IF ~a.shapes.present THEN JUMP_DEFAULT
    ELSE IF "lupus" \in a.shapes.active THEN JUMP_LUPUS
    ELSE IF "glabro" \in a.shapes.active THEN JUMP_GLABRO
    ELSE IF "crinos" \in a.shapes.active THEN JUMP_CRINOS
    ELSE IF "hispo" \in a.shapes.active THEN JUMP_HISPO
    ELSE JUMP_DEFAULT

\* pickJumpConstantsForActor(actor)
pickJumpConstantsForActor(a) ==
    IF ~a.shapes.present THEN JUMP_DEFAULT
    ELSE IF "glabro" \in a.shapes.active THEN JUMP_GLABRO
    ELSE IF "crinos" \in a.shapes.active THEN JUMP_CRINOS
    ELSE IF "hispo" \in a.shapes.active THEN JUMP_HISPO
    ELSE IF "lupus" \in a.shapes.active THEN JUMP_LUPUS
    ELSE JUMP_DEFAULT

\* applyJumpOverrideInPlace(actor): the actor it leaves and res.changed
applyJumpOverrideInPlace(a) ==
    IF ~a.movement.present THEN [actor |-> a, changed |-> FALSE]
    ELSE LET target == pickJumpConstantsForActor(a)
         IN [actor |-> [a EXCEPT !.movement.vjump = target.vjump,
                                 !.movement.hjump = target.hjump],
             changed |-> a.movement.vjump # target.vjump \/ a.movement.hjump # target.hjump]

\* the body of patchedPrepareDerivedData after original.apply(this, args), without
\* the test of the UI language
afterOriginal_NoLangGate(inner) ==
    IF jumpGame.systemId # TARGET_SYSTEM THEN inner
    ELSE LET res == applyJumpOverrideInPlace(inner.actor)
         IN [inner EXCEPT !.actor = res.actor,
                          !.events = Append(@, "override"),
                          !.console = IF res.changed
                                      THEN log(@, "debug", <<"[ns]", "jump override applied">>,
                                               "plain").console
                                      ELSE @]

\* the body of patchedPrepareDerivedData after original.apply(this, args)
afterOriginal(inner) ==
    IF jumpGame.systemId # TARGET_SYSTEM \/ ~isRuUi THEN inner
    ELSE LET res == applyJumpOverrideInPlace(inner.actor)
         IN [inner EXCEPT !.actor = res.actor,
                          !.events = Append(@, "override"),
                          !.console = IF res.changed
                                      THEN log(@, "debug", <<"[ns]", "jump override applied">>,
                                               "plain").console
                                      ELSE @]

\* a call of Actor.prototype.prepareDerivedData through wraps wrappers; orig is
\* what the system's original does in this call
RECURSIVE prepareDerivedData(_, _, _, _)
prepareDerivedData(wraps, a, orig, cons) ==
    IF wraps = 0
    THEN [actor |-> [a EXCEPT !.movement = orig.movement, !.rest = orig.rest],
          result |-> orig.result, events |-> <<"original">>, console |-> cons]
    ELSE afterOriginal(prepareDerivedData(wraps - 1, a, orig, cons))

\* patchActorPrepareDerivedData(stage) without the test of the patch flag
patchActorPrepareDerivedData_NoFlag(proto, cons) ==
    IF ~proto.available
    THEN [proto |-> proto, ok |-> FALSE,
          console |-> log(cons, "warn", <<"Actor.prepareDerivedData not available">>,
                          "plain").console]
    ELSE [proto |-> [proto EXCEPT !.wraps = @ + 1, !.flagged = TRUE], ok |-> TRUE,
          console |-> log(cons, "info", <<"Jump override patch applied">>, "undefined").console]

\* patchActorPrepareDerivedData(stage)
patchActorPrepareDerivedData(proto, cons) ==
    IF ~proto.available
    THEN [proto |-> proto, ok |-> FALSE,
          console |-> log(cons, "warn", <<"Actor.prepareDerivedData not available">>,
                          "plain").console]
    ELSE IF proto.flagged
    THEN [proto |-> proto, ok |-> TRUE,
          console |-> log(cons, "debug", <<"[ns]", "patch already applied">>,
                          "undefined").console]
    ELSE [proto |-> [proto EXCEPT !.wraps = @ + 1, !.flagged = TRUE], ok |-> TRUE,
          console |-> log(cons, "info", <<"Jump override patch applied">>, "undefined").console]

\* applyPatch(stage)
applyPatch(proto, cons) ==
    IF ~jumpGame.defined THEN [proto |-> proto, console |-> cons]
    ELSE IF jumpGame.systemId # "undefined" /\ jumpGame.systemId # TARGET_SYSTEM
    THEN [proto |-> proto, console |-> cons]
    ELSE IF ~isRuUi
    THEN [proto |-> proto,
          console |-> log(cons, "debug", <<"[ns]", "Patch skipped: UI is not RU">>,
                          "plain").console]
    ELSE [proto |-> patchActorPrepareDerivedData(proto, cons).proto,
          console |-> patchActorPrepareDerivedData(proto, cons).console]

\* Bound of the model: runs of applyPatch, the two hook handlers included.
MaxPatchRuns == 3

JumpLangs == {"ru-RU", "RU", "en", "undefined"}
\* system.shapes: missing, or with no, one or two shapes active
ShapeStates == {[present |-> FALSE, active |-> {}]}
               \cup {[present |-> TRUE, active |-> s] :
                       s \in {{}, {"glabro"}, {"crinos"}, {"hispo"}, {"lupus"},
                              {"crinos", "lupus"}, {"hispo", "lupus"}}}
Movements_0 == [present |-> FALSE, vjump |-> Undefined, hjump |-> Undefined, walk |-> Undefined]
Movements == {Movements_0}
             \cup {[present |-> TRUE, vjump |-> v, hjump |-> h, walk |-> Num(70)] :
                     v \in {Undefined, Num(20)}, h \in {Num(40), Num(10)}}
\* what the system's original leaves and returns in one call
Originals == [movement : Movements, rest : {"derived"}, result : {Undefined, Str}]

JumpInit ==
    /\ jumpGame \in {[defined |-> TRUE, systemId |-> s] :
                       s \in {TARGET_SYSTEM, "dnd5e", "undefined"}}
    /\ actorProto \in {[available |-> b, wraps |-> 0, flagged |-> FALSE] : b \in BOOLEAN}
    /\ hooksPending = {"i18nInit", "ready"}
    /\ patchRuns = 0
    /\ actor \in {[shapes |-> s, movement |-> Movements_0, rest |-> ""] : s \in ShapeStates}
    /\ jumpTrace = [op |-> "none"]

\* Hooks.once("i18nInit") and Hooks.once("ready"): the handler logs and runs applyPatch
HookFires(stage) ==
    LET cons == log(console, "debug", <<"[ns]", "Attempting to apply jump override patch", stage>>,
                    "undefined").console
        done == applyPatch(actorProto, cons)
    IN /\ stage \in hooksPending
       /\ stage = "ready" =>
             jumpGame.defined /\ jumpGame.systemId # "undefined" /\ actorProto.available
       /\ console = <<>>
       /\ hooksPending' = hooksPending \ {stage}
       /\ patchRuns' = patchRuns + 1
       /\ actorProto' = done.proto
       /\ console' = done.console
       /\ jumpTrace' = [op |-> "other"]
       /\ UNCHANGED <<jumpGame, actor, debugLogging, logTrace, notLogJump>>

\* one more run of applyPatch
ApplyPatch ==
    LET done == applyPatch(actorProto, console)
    IN /\ patchRuns < MaxPatchRuns
       /\ console = <<>>
       /\ patchRuns' = patchRuns + 1
       /\ actorProto' = done.proto
       /\ console' = done.console
       /\ jumpTrace' = [op |-> "other"]
       /\ UNCHANGED <<jumpGame, hooksPending, actor, debugLogging, logTrace, notLogJump>>

\* the host gets further in its start: the system is known, the Actor class is
\* there
HostStarts ==
    /\ jumpGame.systemId = "undefined" \/ ~actorProto.available
    /\ jumpGame' = [jumpGame EXCEPT !.systemId = IF @ = "undefined" THEN TARGET_SYSTEM ELSE @]
    /\ actorProto' = [actorProto EXCEPT !.available = TRUE]
    /\ jumpTrace' = [op |-> "other"]
    /\ UNCHANGED <<hooksPending, patchRuns, actor, logVars, notLogJump>>

\* the UI language is set or changed
JumpLanguageChanges(lang) ==
    /\ lang # i18nLang
    /\ i18nLang' = lang
    /\ jumpTrace' = [op |-> "other"]
    /\ UNCHANGED <<docLang, htmlClasses, rootClasses, langTrace, jumpGame, actorProto,
                   hooksPending, patchRuns, actor, notLangJump>>

\* the user selects shapes on the sheet
ShapeChanges(shapes) ==
    /\ shapes # actor.shapes
    /\ actor' = [actor EXCEPT !.shapes = shapes]
    /\ jumpTrace' = [op |-> "other"]
    /\ UNCHANGED <<jumpGame, actorProto, hooksPending, patchRuns, logVars, notLogJump>>

\* a call of actor.prepareDerivedData()
PrepareDerivedData(orig) ==
    LET done == prepareDerivedData(actorProto.wraps, actor, orig, console)
    IN /\ actorProto.available
       /\ console = <<>>
       /\ actor' = done.actor
       /\ console' = done.console
       /\ jumpTrace' = [op |-> "call", wraps |-> actorProto.wraps, orig |-> orig,
                        result |-> done.result, events |-> done.events]
       /\ UNCHANGED <<jumpGame, actorProto, hooksPending, patchRuns, debugLogging, logTrace,
                      notLogJump>>

JumpNext ==
    \/ \E stage \in {"i18nInit", "ready"} : HookFires(stage)
    \/ ApplyPatch
    \/ HostStarts
    \/ \E lang \in JumpLangs : JumpLanguageChanges(lang)
    \/ \E shapes \in ShapeStates : ShapeChanges(shapes)
    \/ \E orig \in Originals : PrepareDerivedData(orig)
    \/ ConsoleCleared

(***************************************************************************)
(* Notes level: scripts/hooks/actor-sheet-default-position.js, lines 314   *)
(* to 538.                                                                 *)
(*                                                                         *)
(* A level is a record of its type t, its number n and its string s; a     *)
(* string is a sequence of words in which " " is white space, as for trim. *)
(* A cell is a record of what its innerHTML is (kind "nbsp": exactly       *)
(* &nbsp;, "text": plain text, "markup": elements around the text), its    *)
(* textContent and its title attribute.                                    *)
(***************************************************************************)
NBSP == "nbsp"
Level(t, n, s) == [t |-> t, n |-> n, s |-> s]
LevelUndefined == Level("undefined", 0, <<>>)
NoTitle == [present |-> FALSE, text |-> <<>>]
Title(text) == [present |-> TRUE, text |-> text]
CellOf(kind, text, title) == [kind |-> kind, text |-> text, title |-> title]

LEVEL_KEY == "wod.notes.level.high"
EMPTY_KEY == "wod.notes.level.blank"

\* the translations of the world: a key with a text, a key with an empty text
Translated(k) == k \in {<<LEVEL_KEY>>, <<EMPTY_KEY>>}
Translation(k) == IF k = <<LEVEL_KEY>> THEN <<"High">> ELSE IF k = <<EMPTY_KEY>> THEN <<>> ELSE k

\* safe(() => game?.i18n?.localize?.(k), "")
safeLocalize(k) ==
    IF notesI18n = "ready" THEN [defined |-> TRUE, text |-> Translation(k)]
    ELSE IF notesI18n = "missing" THEN [defined |-> FALSE, text |-> <<>>]
    ELSE [defined |-> TRUE, text |-> <<>>]

\* localizeOrEmpty(key)
localizeOrEmpty(key) ==
    LET k == trim(key)
        localized == safeLocalize(k)
    IN IF k = <<>> THEN [text |-> <<>>, hidden |-> TRUE, kind |-> "empty-string"]
       ELSE IF k = <<"0">> THEN [text |-> <<>>, hidden |-> TRUE, kind |-> "string-zero"]
       ELSE IF ~localized.defined \/ localized.text = <<>> \/ localized.text = k
       THEN [text |-> <<>>, hidden |-> TRUE, kind |-> "i18n-missing"]
       ELSE [text |-> localized.text, hidden |-> FALSE, kind |-> "i18n"]

\* normalizeLevel(raw) without the test for numbers that are not positive
normalizeLevel_ZeroShown(raw) ==
    IF raw.t \in {"null", "undefined"} THEN [text |-> <<>>, hidden |-> TRUE, kind |-> "nullish"]
    ELSE IF raw.t \in {"nan", "infinity"}
    THEN [text |-> <<>>, hidden |-> TRUE, kind |-> "number<=0"]
    ELSE IF raw.t = "number"
    THEN [text |-> <<ToString(raw.n)>>, hidden |-> FALSE, kind |-> "number"]
    ELSE IF raw.t = "string" THEN localizeOrEmpty(raw.s)
    ELSE [text |-> <<>>, hidden |-> TRUE, kind |-> "non-supported"]

\* normalizeLevel(raw)
normalizeLevel(raw) ==
    IF raw.t \in {"null", "undefined"} THEN [text |-> <<>>, hidden |-> TRUE, kind |-> "nullish"]
    ELSE IF raw.t \in {"nan", "infinity"} \/ (raw.t = "number" /\ raw.n <= 0)
    THEN [text |-> <<>>, hidden |-> TRUE, kind |-> "number<=0"]
    ELSE IF raw.t = "number"
    THEN [text |-> <<ToString(raw.n)>>, hidden |-> FALSE, kind |-> "number"]
    ELSE IF raw.t = "string" THEN localizeOrEmpty(raw.s)
    ELSE [text |-> <<>>, hidden |-> TRUE, kind |-> "non-supported"]

\* renderCell(cell, norm)
renderCell(cell, norm) ==
    IF norm.hidden THEN CellOf("nbsp", <<NBSP>>, NoTitle)
    ELSE CellOf("text", norm.text, Title(norm.text))

\* (cell.textContent ?? "").replace(/ /g, "").trim()
currentText(cell) == trim(SelectSeq(cell.text, LAMBDA w : w # NBSP))

\* getRowItemId(row)
getRowItemId(row) == IF row.drag THEN row.itemId ELSE ""

\* getLevelCell(row): whether the row has a level cell
getLevelCell(row) == row.drag /\ row.cellBy \in {"byClass", "nth5"}

\* the body of the loop of patch() for one row: the row it leaves and what was
\* done with it
patchRow(row) ==
    IF row.marked THEN [row |-> row, outcome |-> "skipped"]
    ELSE IF getRowItemId(row) = "" THEN [row |-> row, outcome |-> "skipped"]
    ELSE IF getRowItemId(row) # "item1" THEN [row |-> row, outcome |-> "missingItem"]
    ELSE IF ~getLevelCell(row) THEN [row |-> row, outcome |-> "missingCell"]
    ELSE LET norm == normalizeLevel(notesLevel)
             desired == IF norm.hidden THEN <<>> ELSE trim(norm.text)
         IN IF currentText(row.cell) # desired
            THEN [row |-> [row EXCEPT !.cell = renderCell(@, norm), !.marked = TRUE],
                  outcome |-> "updated"]
            ELSE IF norm.hidden /\ row.cell.kind # "nbsp"
            THEN [row |-> [row EXCEPT !.cell = renderCell(@, norm), !.marked = TRUE],
                  outcome |-> "rendered"]
            ELSE [row |-> [row EXCEPT !.marked = TRUE], outcome |-> "kept"]

\* patch(scope, actor): the rows it leaves and what was done with each
RECURSIVE patch(_)
patch(rows) ==
    IF rows = <<>> THEN [rows |-> <<>>, outcomes |-> <<>>]
    ELSE LET first == patchRow(Head(rows))
             others == patch(Tail(rows))
         IN [rows |-> <<first.row>> \o others.rows,
             outcomes |-> <<first.outcome>> \o others.outcomes]

NoteLevels ==
    {Level("null", 0, <<>>), LevelUndefined, Level("nan", 0, <<>>), Level("infinity", 0, <<>>),
     Level("boolean", 1, <<>>), Level("object", 0, <<>>)}
    \cup {Level("number", n, <<>>) : n \in {-1, 0, 3, 12}}
    \cup {Level("string", 0, s) :
            s \in {<<>>, <<" ">>, <<"0">>, <<" ", "0">>, <<"3">>, <<LEVEL_KEY>>,
                   <<" ", LEVEL_KEY, " ">>, <<EMPTY_KEY>>, <<"wod.unknown">>}}

\* what the system's template writes in the level cell: the level when it is
\* greater than 0, &nbsp; otherwise; a cell may also hold markup or nothing
TemplateCells(raw) ==
    {CellOf("nbsp", <<NBSP>>, NoTitle), CellOf("text", <<>>, NoTitle),
     CellOf("markup", <<>>, NoTitle), CellOf("text", <<"old">>, Title(<<"old">>))}
    \cup (IF raw.t = "number" /\ raw.n > 0
          THEN {CellOf("text", <<ToString(raw.n)>>, NoTitle),
                CellOf("markup", <<" ", ToString(raw.n), " ">>, NoTitle)}
          ELSE {})
    \cup (IF raw.t = "string"
          THEN {CellOf("text", raw.s, NoTitle)}
          ELSE {})

PlainRow == [marked |-> FALSE, drag |-> TRUE, itemId |-> "item1", cellBy |-> "byClass",
             cell |-> CellOf("nbsp", <<NBSP>>, NoTitle)]

\* the rows of a freshly rendered Notes tab
TemplateRows(raw) ==
    {<<>>}
    \cup {<<[PlainRow EXCEPT !.cell = c, !.cellBy = by]>> :
            c \in TemplateCells(raw), by \in {"byClass", "nth5"}}
    \cup {<<r, PlainRow>> :
            r \in {[PlainRow EXCEPT !.drag = FALSE], [PlainRow EXCEPT !.itemId = ""],
                   [PlainRow EXCEPT !.itemId = "gone"], [PlainRow EXCEPT !.cellBy = "none"]}}

\* afterStableLayout: the animation frames a scheduled patch waits for
STABLE_FRAMES == 2

NotesInit ==
    /\ notesLevel \in NoteLevels
    /\ notesI18n \in {"ready", "missing", "throws"}
    /\ notesRows = <<>>
    /\ notesFrames = 0
    /\ notesTrace = [op |-> "none"]

\* Hooks.on("renderActorSheet"): the host has rendered the sheet (fresh: with new
\* rows, otherwise the hook fires again for the same rows); the hook schedules the
\* patch
RenderActorSheetNotes(fresh, rows, hasActor, hasRoot) ==
    /\ notesFrames = 0
    /\ notesRows' = IF fresh THEN rows ELSE notesRows
    /\ notesFrames' = IF startsWithRu(toLowerCase(i18nLang)) /\ hasActor /\ hasRoot
                      THEN STABLE_FRAMES ELSE 0
    /\ notesTrace' = [op |-> "render"]
    /\ UNCHANGED <<notesLevel, notesI18n, logVars, notLogNotes>>

\* requestAnimationFrame: a frame passes; after the second one patch runs and the
\* hook logs when there were rows
NotesFramePasses ==
    LET done == patch(notesRows)
    IN /\ notesFrames > 0
       /\ console = <<>>
       /\ notesFrames' = notesFrames - 1
       /\ IF notesFrames = 1
          THEN /\ notesRows' = done.rows
               /\ notesTrace' = [op |-> "patch", outcomes |-> done.outcomes, before |-> notesRows]
               /\ console' = IF Len(notesRows) > 0
                             THEN log(console, "debug", <<"[ns]", "notes level patch done">>,
                                      "plain").console
                             ELSE console
          ELSE /\ notesTrace' = [op |-> "frame"]
               /\ UNCHANGED <<notesRows, console>>
       /\ UNCHANGED <<notesLevel, notesI18n, debugLogging, logTrace, notLogNotes>>

\* the user edits the level of the item; the host drops the rendered rows and
\* renders again
NotesLevelChanges(raw) ==
    /\ raw # notesLevel
    /\ notesFrames = 0
    /\ notesLevel' = raw
    /\ notesRows' = <<>>
    /\ notesTrace' = [op |-> "level"]
    /\ UNCHANGED <<notesI18n, notesFrames, logVars, notLogNotes>>

NotesNext ==
    \/ \E fresh, hasActor, hasRoot \in BOOLEAN, rows \in TemplateRows(notesLevel) :
          RenderActorSheetNotes(fresh, rows, hasActor, hasRoot)
    \/ NotesFramePasses
    \/ \E raw \in NoteLevels : NotesLevelChanges(raw)
    \/ ConsoleCleared

(***************************************************************************)
(* Module i18n loader: scripts/init-module.js, lines 1 to 90.              *)
(*                                                                         *)
(* A JSON value is a node: absent (the key is not there), a leaf (a        *)
(* string), an array, or an object with its keys.  Every object is a       *)
(* function on TrKeys whose absent keys hold AbsentNode.                   *)
(***************************************************************************)
TrKeys == {"a", "b"}
AbsentNode == [t |-> "absent", v |-> "", keys |-> <<>>]
Leaf(v) == [t |-> "leaf", v |-> v, keys |-> <<>>]
ArrayNode == [t |-> "array", v |-> "", keys |-> <<>>]
Obj(keys) == [t |-> "object", v |-> "", keys |-> keys]
NoKeys == [k \in TrKeys |-> AbsentNode]

I18N_TAG == "[wod-v20-ru][i18n]"
MODULE_RU == "lang/module-ru.json"
MODULE_EN == "lang/module-en.json"

\* the keys of a node that target[k] can be merged into
keysOf(node) == IF node.t = "object" THEN node.keys ELSE NoKeys

\* Object.assign(target, source) in place of deepMerge
deepMerge_Shallow(target, source) ==
    [k \in TrKeys |-> IF source[k].t = "absent" THEN target[k] ELSE source[k]]

\* deepMerge(target, source) on the keys of two objects
RECURSIVE deepMerge(_, _)
deepMerge(target, source) ==
    [k \in TrKeys |->
        IF source[k].t = "absent" THEN target[k]
        ELSE IF source[k].t = "object"
        THEN Obj(deepMerge(keysOf(target[k]), source[k].keys))
        ELSE source[k]]

\* getLang() of init-module.js, which reads game?.i18n?.lang without safe()
i18nGetLang ==
    IF i18nLang # "undefined" THEN i18nLang
    ELSE IF docLang # "undefined" THEN docLang
    ELSE "en"

\* console.warn(TAG, ...args) and the log() of the loader, which is gated by isDebug()
i18nWarn(cons, msg) == Append(cons, [level |-> "warn", text |-> <<I18N_TAG, msg>>])
i18nLog(cons, msg) ==
    IF isDebugEnabled THEN Append(cons, [level |-> "info", text |-> <<I18N_TAG, msg>>])
    ELSE cons

\* the store after game.i18n.translations ??= {} and deepMerge(store, data); data
\* is the parsed file: an object, or null
mergeInto(store, data) ==
    [present |-> TRUE,
     keys |-> IF data.t = "object" THEN deepMerge(store.keys, data.keys) ELSE store.keys]

\* loadModuleTranslations() together with the .catch of the i18nInit handler;
\* files: what the request of each path gives, a parsed file or "fail"
loadModuleTranslations(store, cons, files) ==
    LET lang == i18nGetLang
        chosen == IF lang = "ru" THEN MODULE_RU ELSE MODULE_EN
        fallback == MODULE_EN
    IN IF files[chosen].t # "fail"
       THEN [store |-> mergeInto(store, files[chosen]),
             requests |-> <<chosen>>, outcome |-> "chosen", thrown |-> FALSE,
             console |-> i18nLog(cons, "Loaded module translations")]
       ELSE LET warned == i18nWarn(cons, "Primary module translation load failed, trying fallback")
            IN IF files[fallback].t # "fail"
               THEN [store |-> mergeInto(store, files[fallback]),
                     requests |-> <<chosen, fallback>>, outcome |-> "fallback",
                     thrown |-> FALSE,
                     console |-> i18nLog(warned, "Loaded module translations (fallback)")]
               ELSE [store |-> store,
                     requests |-> <<chosen, fallback>>, outcome |-> "failed",
                     thrown |-> FALSE,
                     console |-> i18nWarn(warned, "Module i18n load failed")]

FailedLoad == [t |-> "fail", v |-> "", keys |-> <<>>]
NullData == [t |-> "null", v |-> "", keys |-> <<>>]

\* the keys of the world's store before the module loads its own
StoreKeys ==
    {[a |-> x, b |-> y] :
        x \in {AbsentNode, Leaf("one"), ArrayNode,
               Obj([a |-> Leaf("one"), b |-> AbsentNode]),
               Obj([a |-> AbsentNode, b |-> Leaf("one")])},
        y \in {AbsentNode, Leaf("one")}}

\* what a request of a translation file can give
FileData ==
    {FailedLoad, NullData,
     Obj([a |-> Leaf("two"), b |-> AbsentNode]),
     Obj([a |-> ArrayNode, b |-> Leaf("two")]),
     Obj([a |-> Obj([a |-> Leaf("two"), b |-> AbsentNode]), b |-> AbsentNode]),
     Obj([a |-> Obj([a |-> AbsentNode, b |-> Leaf("two")]), b |-> Leaf("two")])}

TrInit ==
    /\ trStore \in {[present |-> FALSE, keys |-> NoKeys]}
                   \cup {[present |-> TRUE, keys |-> s] : s \in StoreKeys}
    /\ trTrace = [op |-> "none"]

\* Hooks.on("i18nInit"): the two files are what the server gives in this run
LoadModuleTranslations(ru, en) ==
    LET files == [p \in {MODULE_RU, MODULE_EN} |-> IF p = MODULE_RU THEN ru ELSE en]
        done == loadModuleTranslations(trStore, console, files)
    IN /\ console = <<>>
       /\ trStore' = done.store
       /\ console' = done.console
       /\ trTrace' = [op |-> "load", requests |-> done.requests, outcome |-> done.outcome,
                      thrown |-> done.thrown, before |-> trStore, calls |-> done.console,
                      data |-> IF done.outcome = "failed" THEN FailedLoad
                               ELSE files[done.requests[Len(done.requests)]]]
       /\ UNCHANGED <<debugLogging, logTrace, notLogTr>>

\* the language of the UI is set
TrLanguageChanges(lang) ==
    /\ lang # i18nLang
    /\ i18nLang' = lang
    /\ trTrace' = [op |-> "language"]
    /\ UNCHANGED <<docLang, htmlClasses, rootClasses, langTrace, trStore, notLangTr>>

TrNext ==
    \/ \E ru, en \in FileData : LoadModuleTranslations(ru, en)
    \/ \E lang \in {"ru", "en", "ru-RU", "undefined"} : TrLanguageChanges(lang)
    \/ ConsoleCleared

(***************************************************************************)
(* Debounced persistence with time (hooks/actor-sheet-default-position.js, *)
(* wrapSetPosition).  One sheet instance, a clock in ms, and the host's    *)
(* timer table: setTimeout(f, ms) makes f due ms later, and the host runs  *)
(* a due timer at some moment that is not earlier than its due time.       *)
(***************************************************************************)
SAVE_DEBOUNCE_MS == 250

\* the horizon of the clock, and how many calls and other moves a run has
MaxClock == 600
MaxDebCalls == 3
MaxDebMoves == 1

\* the steps the clock takes between two events
Gaps == {50, 200, 250}

\* the argument of app.setPosition in a drag or a resize
DebRequests ==
    {[left |-> Num(520), top |-> Num(200), width |-> Absent, height |-> Absent],
     [left |-> Absent, top |-> Absent, width |-> Num(700), height |-> Num(500)]}

\* the request of the hardcoded default: app.setPosition({left, top})
DebDefaultRequest ==
    [left |-> Num(DEFAULT_LEFT), top |-> Num(DEFAULT_TOP), width |-> Absent,
     height |-> Absent]

\* clearTimeout without effect: every timer armed stays in the table
clearTimeout_Keeps(pending, handle) == pending

\* if (timer) clearTimeout(timer): the timer of the handle leaves the table
clearTimeout(pending, handle) ==
    IF handle # 0 THEN {t \in pending : t.id # handle} ELSE pending

\* timer = setTimeout(callback, ms) at time now: a new timer, due ms later
setTimeout(pending, id, now, ms) == pending \cup {[id |-> id, due |-> now + ms]}

\* one setSavedPosition(sheetClass, pos) call, with the history of its moment:
\* the clock, the number of wrapper calls so far, the timer that issued it
\* (0 when none did) and app.position as it was
DebWrite(pos, m, u, source, id) ==
    [at |-> debNow, calls |-> Len(debCalls), source |-> source, timer |-> id,
     seen |-> debPosition, payload |-> Payload(pos, m, u)]

DebInit ==
    /\ debNow = 0
    /\ debPosition = OpeningPosition
    /\ debApplying = FALSE
    /\ debTimer = [handle |-> 0, pending |-> {}]
    /\ debCalls = <<>>
    /\ debWrites = <<>>
    /\ debMoves = 0

\* wrappedSetPosition(request): original(request), then the timer of the handle
\* is cleared and a new one is armed
DebWrappedSetPosition(request, honoured) ==
    LET id == Len(debCalls) + 1 IN
    /\ debPosition' = Original(debPosition, request, honoured)
    /\ debTimer' = [handle |-> id,
                    pending |-> setTimeout(clearTimeout(debTimer.pending, debTimer.handle),
                                           id, debNow, SAVE_DEBOUNCE_MS)]
    /\ debCalls' = Append(debCalls, debNow)

\* app.setPosition(request) from a drag, a resize or the host
DebSetPosition(request) ==
    /\ Len(debCalls) < MaxDebCalls
    /\ debNow + SAVE_DEBOUNCE_MS <= MaxClock
    /\ DebWrappedSetPosition(request, TRUE)
    /\ UNCHANGED <<debNow, debApplying, debWrites, debMoves, notDeb>>

\* applySavedOrHardDefault without a saved record: the flag is up during the
\* call of app.setPosition, and the position is stored at once
DebApplyDefault(honoured) ==
    LET pos == normalizeAppPosition(Original(debPosition, DebDefaultRequest, honoured)) IN
    /\ debCalls = <<>>
    /\ debMoves < MaxDebMoves
    /\ debNow + SAVE_DEBOUNCE_MS <= MaxClock
    /\ debMoves' = debMoves + 1
    /\ DebWrappedSetPosition(DebDefaultRequest, honoured)
    /\ debApplying' = FALSE
    /\ debWrites' = Append(debWrites,
           [DebWrite(pos, True, False, "apply", 0) EXCEPT
               !.calls = Len(debCalls) + 1,
               !.seen = Original(debPosition, DebDefaultRequest, honoured)])
    /\ UNCHANGED <<debNow, notDeb>>

\* the host moves the sheet without going through the wrapper of the instance
DebHostMoves(p) ==
    /\ debMoves < MaxDebMoves
    /\ debTimer.pending # {}
    /\ p # debPosition
    /\ debMoves' = debMoves + 1
    /\ debPosition' = p
    /\ UNCHANGED <<debNow, debApplying, debTimer, debCalls, debWrites, notDeb>>

\* time passes
DebTimePasses(ms) ==
    /\ debNow + ms <= MaxClock
    /\ debNow' = debNow + ms
    /\ UNCHANGED <<debPosition, debApplying, debTimer, debCalls, debWrites, debMoves,
                   notDeb>>

\* the host runs the callback of a due timer: the position is read now and
\* setSavedPosition is called with it
DebTimerFires(t) ==
    LET pos == normalizeAppPosition(debPosition)
        isApplyingDefault == debApplying = TRUE
    IN
    /\ t \in debTimer.pending
    /\ debNow >= t.due
    /\ debTimer' = [debTimer EXCEPT !.pending = @ \ {t}]
    /\ debWrites' = Append(debWrites,
                           IF isApplyingDefault
                           THEN DebWrite(pos, True, False, "timer", t.id)
                           ELSE DebWrite(pos, Absent, True, "timer", t.id))
    /\ UNCHANGED <<debNow, debPosition, debApplying, debCalls, debMoves, notDeb>>

DebFire == \E t \in debTimer.pending : DebTimerFires(t)

DebTick == \E ms \in Gaps : DebTimePasses(ms)

DebNext ==
    \/ \E request \in DebRequests : DebSetPosition(request)
    \/ \E honoured \in BOOLEAN : DebApplyDefault(honoured)
    \/ \E p \in HostPositions : DebHostMoves(p)
    \/ DebTick
    \/ DebFire

(***************************************************************************)
(* Specifications: one group of hooks runs, the others stay idle.          *)
(***************************************************************************)
PosIdle ==
    /\ flagMap = [c \in SheetClasses |-> NoRecord]
    /\ pendingWrites = <<>>
    /\ position = [a \in Apps |-> OpeningPosition]
    /\ wrapped = [a \in Apps |-> FALSE]
    /\ timer = [a \in Apps |-> FALSE]
    /\ applying = [a \in Apps |-> FALSE]
    /\ frames = [a \in Apps |-> 0]
    /\ armedByDefault = [a \in Apps |-> FALSE]
    /\ defaultApplied = [c \in SheetClasses |-> 0]
    /\ renders = 0
    /\ moves = 0

LangIdle ==
    /\ i18nLang = "en"
    /\ docLang = "undefined"
    /\ htmlClasses = <<>>
    /\ rootClasses = <<>>
    /\ langTrace = [op |-> "none", root |-> <<>>, html |-> <<>>, again |-> FALSE]

ItemIdle ==
    /\ itemDom = <<>>
    /\ itemType = ""
    /\ itemTrace = [runs |-> 0, before |-> <<>>]

CombatIdle ==
    /\ combatRows = <<>>
    /\ actorItems = <<>>
    /\ combatTrace = [op |-> "none", before |-> <<>>, ran |-> FALSE, threw |-> FALSE]

\* the added groups at rest
LogIdle ==
    /\ debugLogging = "false"
    /\ console = <<>>
    /\ logTrace = [op |-> "none", level |-> "", data |-> "", threw |-> FALSE, value |-> "", expect |-> "", before |-> <<>>]

StepIdle ==
    /\ stepSeq = 0
    /\ stepTrace = [op |-> "none", name |-> "", fatal |-> TRUE, fn |-> [kind |-> "returns", value |-> "undefined"], calls |-> <<>>, result |-> [kind |-> "none", value |-> ""]]
    /\ flow = [status |-> "idle", ran |-> <<>>]

TplIdle ==
    /\ tplApi = <<>>
    /\ tplGlobals = <<>>
    /\ tplTrace = [op |-> "none"]

JumpIdle ==
    /\ jumpGame = [defined |-> FALSE, systemId |-> "undefined"]
    /\ actorProto = [available |-> FALSE, wraps |-> 0, flagged |-> FALSE]
    /\ hooksPending = {}
    /\ patchRuns = 0
    /\ actor = [shapes |-> [present |-> FALSE, active |-> {}], movement |-> [present |-> FALSE, vjump |-> Undefined, hjump |-> Undefined, walk |-> Undefined], rest |-> ""]
    /\ jumpTrace = [op |-> "none"]

NotesIdle ==
    /\ notesRows = <<>>
    /\ notesLevel = LevelUndefined
    /\ notesI18n = "ready"
    /\ notesFrames = 0
    /\ notesTrace = [op |-> "none"]

TrIdle ==
    /\ trStore = [present |-> FALSE, keys |-> NoKeys]
    /\ trTrace = [op |-> "none"]

DebIdle ==
    /\ debNow = 0
    /\ debPosition = OpeningPosition
    /\ debApplying = FALSE
    /\ debTimer = [armed |-> FALSE, due |-> 0]
    /\ debCalls = <<>>
    /\ debWrites = <<>>
    /\ debMoves = 0

\* every added group outside the set g is idle
NewIdleBut(g) ==
    /\ ("Log" \in g \/ LogIdle)
    /\ ("Step" \in g \/ StepIdle)
    /\ ("Tpl" \in g \/ TplIdle)
    /\ ("Jump" \in g \/ JumpIdle)
    /\ ("Notes" \in g \/ NotesIdle)
    /\ ("Tr" \in g \/ TrIdle)
    /\ ("Deb" \in g \/ DebIdle)

NewIdle == NewIdleBut({})

OldIdle == PosIdle /\ LangIdle /\ ItemIdle /\ CombatIdle

InitPos == PosInit /\ LangIdle /\ ItemIdle /\ CombatIdle /\ NewIdle
SpecPos == InitPos /\ [][PosNext]_vars

InitLang == LangInit /\ PosIdle /\ ItemIdle /\ CombatIdle /\ NewIdle
SpecLang == InitLang /\ [][LangNext]_vars

InitItem == ItemInit /\ LangInit /\ PosIdle /\ CombatIdle /\ NewIdle
SpecItem == InitItem /\ [][ItemNext]_vars

InitCombat ==
    /\ CombatInit
    /\ docLang = "undefined" /\ htmlClasses = <<>> /\ rootClasses = <<>>
    /\ langTrace = [op |-> "none", root |-> <<>>, html |-> <<>>, again |-> FALSE]
    /\ PosIdle /\ ItemIdle /\ NewIdle
SpecCombat == InitCombat /\ [][CombatNext]_vars

InitLog == LogInit /\ OldIdle /\ NewIdleBut({"Log"})
SpecLog == InitLog /\ [][LogNext]_vars

InitStep == StepInit /\ OldIdle /\ NewIdleBut({"Step"})
SpecStep == InitStep /\ [][StepNext]_vars

InitTpl == TplInit /\ LogInit /\ OldIdle /\ NewIdleBut({"Tpl", "Log"})
SpecTpl == InitTpl /\ [][TplNext]_vars

InitJump ==
    /\ JumpInit
    /\ i18nLang \in JumpLangs
    /\ htmlClasses \in {<<>>, <<LANG_CLASS>>}
    /\ docLang = "undefined" /\ rootClasses = <<>>
    /\ langTrace = [op |-> "none", root |-> <<>>, html |-> <<>>, again |-> FALSE]
    /\ debugLogging \in {"true", "false"} /\ console = <<>>
    /\ logTrace = [op |-> "none", level |-> "", data |-> "", threw |-> FALSE,
                   value |-> "", expect |-> "", before |-> <<>>]
    /\ PosIdle /\ ItemIdle /\ CombatIdle /\ NewIdleBut({"Jump", "Log"})
SpecJump == InitJump /\ [][JumpNext]_vars

InitNotes ==
    /\ NotesInit
    /\ i18nLang \in {"ru", "en"}
    /\ docLang = "undefined" /\ htmlClasses = <<>> /\ rootClasses = <<>>
    /\ langTrace = [op |-> "none", root |-> <<>>, html |-> <<>>, again |-> FALSE]
    /\ debugLogging \in {"true", "false"} /\ console = <<>>
    /\ logTrace = [op |-> "none", level |-> "", data |-> "", threw |-> FALSE,
                   value |-> "", expect |-> "", before |-> <<>>]
    /\ PosIdle /\ ItemIdle /\ CombatIdle /\ NewIdleBut({"Notes", "Log"})
SpecNotes == InitNotes /\ [][NotesNext]_vars

InitTr ==
    /\ TrInit
    /\ i18nLang \in {"ru", "en", "ru-RU", "undefined"}
    /\ docLang \in {"ru", "undefined"}
    /\ htmlClasses = <<>> /\ rootClasses = <<>>
    /\ langTrace = [op |-> "none", root |-> <<>>, html |-> <<>>, again |-> FALSE]
    /\ LogInit
    /\ PosIdle /\ ItemIdle /\ CombatIdle /\ NewIdleBut({"Tr", "Log"})
SpecTr == InitTr /\ [][TrNext]_vars


\* the debounce of one sheet in time; a due timer is run in the end, and
\* time does not stop
InitDeb == DebInit /\ OldIdle /\ NewIdleBut({"Deb"})
SpecDeb ==
    InitDeb /\ [][DebNext]_vars /\ WF_vars(DebFire) /\ WF_vars(DebTick)

\* the record a pending setFlag call stores for the class it was issued for
WrittenRecord(e) == e.map[e.cls]

PendingRecords == {pendingWrites[i] : i \in 1..Len(pendingWrites)}

(* C1: once the stored record of a sheet class has userMovedV1 = true, no later
   step applies the hardcoded default to that class or leaves a stored record
   for it in which userMovedV1 is not true. *)
C1_UserMovedIsKept ==
    [][\A c \in SheetClasses :
          (~flagMap[c].none /\ flagMap[c].userMovedV1 = True)
              => /\ flagMap'[c].userMovedV1 = True
                 /\ defaultApplied'[c] = defaultApplied[c]]_vars

(* C2: for each sheet class the hardcoded default position (no-saved-state
   branch or migration branch) is applied at most once. *)
C2_DefaultAtMostOnce == \A c \in SheetClasses : defaultApplied[c] <= 1

(* C3: a position change made while the runtime flag was set is persisted with
   userMovedV1 not set and migratedDefaultV2 = true; a record with
   userMovedV1 = true is persisted only for a call made without the flag. *)
C3_ModuleMoveIsNotUserMove ==
    \A e \in PendingRecords :
        e.byDefault => /\ WrittenRecord(e).userMovedV1 # True
                       /\ WrittenRecord(e).migratedDefaultV2 = True

WellFormedRecord(r) ==
    /\ ~r.none
    /\ IsFiniteNumber(r.left)
    /\ IsFiniteNumber(r.top)
    /\ r.width = Absent \/ IsFiniteNumber(r.width)
    /\ r.height = Absent \/ IsFiniteNumber(r.height)
    /\ r.migratedDefaultV2 \in {Absent, True}
    /\ r.userMovedV1 \in {Absent, True}

(* C4: every record the module writes into the actorSheetPositions map has
   finite numeric left and top, width and height only when they are finite
   numbers, and the two markers only with the value true. *)
C4_WrittenRecordsWellFormed ==
    \A e \in PendingRecords : WellFormedRecord(WrittenRecord(e))

\* a record written by the timer for a sheet whose app.position held no finite
\* number at all
C4_Witness ==
    \E e \in PendingRecords :
        /\ e.source = "timer"
        /\ WrittenRecord(e).left = Num(0)
        /\ WrittenRecord(e).top = Num(0)
        /\ WrittenRecord(e).width = Absent
        /\ \E a \in Apps : ~IsFiniteNumber(ToNumber(position[a].left))

\* a class name of the form lang + two capital letters
IsLangMarker(cls) == \E x, y \in UpperCase : cls = <<"l", "a", "n", "g", x, y>>

Classes(list) == {list[i] : i \in 1..Len(list)}

NormalizingHookRan == langTrace.op \in {"renderActorSheetSync", "renderActorSheetNormalize"}

(* C5: with language "ru" and a root element, after the renderActorSheet hook of
   a normalizing version the root has langRU and no other lang + two capitals
   class, keeps every class that is not of that form, and a second run of the
   hook on the result changes nothing. *)
C5_RootNormalizedForRU ==
    (NormalizingHookRan /\ getLang = "ru") =>
        /\ LANG_CLASS \in Classes(rootClasses)
        /\ \A cls \in Classes(rootClasses) : IsLangMarker(cls) => cls = LANG_CLASS
        /\ \A cls \in Classes(langTrace.root) : ~IsLangMarker(cls) => cls \in Classes(rootClasses)
        /\ langTrace.again => rootClasses = langTrace.root

\* the hook ran for "ru" on a root that had langEN and a class that only looks
\* like a language marker
C5_Witness ==
    /\ NormalizingHookRan
    /\ getLang = "ru"
    /\ langEN \in Classes(langTrace.root)
    /\ langLong \in Classes(langTrace.root)
    /\ langLong \in Classes(rootClasses)

\* both render hooks of an item sheet have run: renderItemSheet, and
\* renderApplication as the last hook that touched <html>
ItemHooksRan == itemTrace.runs >= 1 /\ langTrace.op = "renderApplication"

(* C6: with the language "ru", after the module's render hooks have run for an
   item sheet, the item sheet's root element carries the class langRU. *)
C6_ItemRootCarriesLangRU ==
    (ItemHooksRan /\ getLang = "ru") => "langRU" \in itemDom[Root].classes

(* C6, as the code has it: with the language "ru", after the module's render
   hooks have run for an item sheet, <html> carries langRU and the class list of
   the item sheet's root is the one the host rendered. *)
C6_HtmlCarriesLangRU ==
    (ItemHooksRan /\ getLang = "ru") =>
        /\ LANG_CLASS \in Classes(htmlClasses)
        /\ itemDom[Root].classes = itemTrace.before[Root].classes

\* both hooks ran for "ru" on a sheet whose checkboxes were converted, with an
\* <html> that carried no langRU before
C6_Witness ==
    /\ ItemHooksRan
    /\ getLang = "ru"
    /\ LANG_CLASS \notin Classes(langTrace.html)
    /\ \E n \in 1..Len(itemDom) : CLASS_LIST \in itemDom[n].classes
    /\ "langRU" \notin itemDom[Root].classes

(* C7: with a language other than "ru", the renderActorSheet hook of a
   normalizing version leaves the root's class list exactly as it was. *)
C7_RootUntouchedForOtherLanguages ==
    (NormalizingHookRan /\ getLang # "ru") => rootClasses = langTrace.root

\* the hook ran for another language on a root that carries langRU and langEN
C7_Witness ==
    /\ NormalizingHookRan
    /\ getLang # "ru"
    /\ LANG_CLASS \in Classes(rootClasses)
    /\ langEN \in Classes(rootClasses)

SyncRan == langTrace.op \in {"ready", "renderApplication", "renderActorSheetSync"}

(* C8: after every run of syncDocumentLangClass, <html> has langRU exactly when
   the language is "ru"; for "ru" no other lang + two capitals class is left,
   and for another language every class other than langRU is untouched. *)
C8_HtmlMarkerInSync ==
    SyncRan =>
        /\ LANG_CLASS \in Classes(htmlClasses) <=> getLang = "ru"
        /\ getLang = "ru" =>
               \A cls \in Classes(htmlClasses) : IsLangMarker(cls) => cls = LANG_CLASS
        /\ getLang # "ru" =>
               htmlClasses = SelectSeq(langTrace.html, LAMBDA cls : cls # LANG_CLASS)

\* the sync ran for another language on an <html> that carried langRU
C8_Witness ==
    /\ SyncRan
    /\ getLang # "ru"
    /\ LANG_CLASS \in Classes(langTrace.html)
    /\ langEN \in Classes(htmlClasses)

\* the checkboxes of the group the hook converts for this item type
TargetNames == IF itemType = "Armor" THEN FormNames ELSE ModeNames
TargetInputs(d) ==
    {n \in 1..Len(d) : d[n].tag = "input" /\ InList(TargetNames, d[n].name)
                       /\ isConnected(d, n)}
Lists(d) == {n \in 1..Len(d) : CLASS_LIST \in d[n].classes /\ isConnected(d, n)}

\* every targeted checkbox stands in a row that is a child of the one list
InOneList(d) ==
    /\ Cardinality(Lists(d)) <= 1
    /\ \A n \in TargetInputs(d) :
          /\ ParentOf(d, n) # 0
          /\ CLASS_ROW \in d[ParentOf(d, n)].classes
          /\ ParentOf(d, ParentOf(d, n)) \in Lists(d)

\* the first run of the hook converted a group of checkboxes
Converted == Lists(itemTrace.before) # {}

(* C9: the conversion is idempotent: with the language "ru" and an item of type
   Ranged Weapon or Armor, a run of the renderItemSheet hook on a DOM that is
   already converted changes nothing, and every targeted checkbox stays in one
   wodru-checkbox-row that is a child of the single wodru-checkbox-list. *)
C9_ConversionIsIdempotent ==
    (isRu /\ itemType \in {"Ranged Weapon", "Armor"} /\ itemTrace.runs >= 2 /\ Converted) =>
        /\ itemDom = itemTrace.before
        /\ InOneList(itemDom)

\* what the row's attributes and the actor's items offer a run: an item id, the
\* item, and an element that serves as the drag row
Resolvable(row) ==
    /\ row.idOn # "none"
    /\ row.itemId \in ItemIds
    /\ actorItems[row.itemId].exists
    /\ (row.dragClass \/ row.idOn = "nested")

(* C10: the combat hook is idempotent per row: a run of the hook leaves the name
   and ability cells of a row that carried the marker as they were; a row gets
   the marker only in a run that resolved its item id, the actor's item and its
   drag row; a row without the marker that the run could not resolve is left as
   it was, without the marker, and a run that can resolve it marks it. *)
C10_MarkedRowsAreLeftAlone ==
    combatTrace.op = "hook" =>
        \A r \in Rows :
            LET was == combatTrace.before[r]
                now == combatRows[r]
            IN /\ was.marker => now = was
               /\ (now.marker /\ ~was.marker) => (combatTrace.ran /\ Resolvable(was))
               /\ (~was.marker /\ ~Resolvable(was)) => now = was
               /\ (combatTrace.ran /\ ~combatTrace.threw /\ ~was.marker /\ Resolvable(was))
                     => now.marker

\* a run left a marked row alone although the actor's item no longer has the name
\* the row shows, and marked the other row, which a run before could not resolve
C10_Witness ==
    /\ combatTrace.op = "hook"
    /\ combatTrace.ran
    /\ combatTrace.before["r1"].marker
    /\ Resolvable(combatRows["r1"])
    /\ combatRows["r1"].name.kind # "absent"
    /\ actorItems[combatRows["r1"].itemId].name # ""
    /\ combatRows["r1"].name.text # actorItems[combatRows["r1"].itemId].name
    /\ ~combatTrace.before["r2"].marker
    /\ combatRows["r2"].marker

(* C11: while the debugLogging setting is false or cannot be read, a call of
   info, debug, warn, error or debugNs makes no console call; while it is true
   the call makes exactly one console call, at the level of the function, also
   for data that JSON.stringify and String() cannot convert. *)
C11_LoggerIsGated ==
    logTrace.op \in LogFns =>
        /\ debugLogging # "true" => console = logTrace.before
        /\ debugLogging = "true" =>
              /\ Len(console) = Len(logTrace.before) + 1
              /\ SubSeq(console, 1, Len(logTrace.before)) = logTrace.before
              /\ console[Len(console)].level = (IF logTrace.op = "debugNs" THEN "debug"
                                                ELSE logTrace.op)

\* debugNs was called with the setting on and data that nothing can convert
C11_Witness ==
    /\ logTrace.op = "debugNs"
    /\ debugLogging = "true"
    /\ logTrace.data = "hostile"
    /\ console # <<>>
    /\ console[Len(console)].level = "debug"

(* C12: safe(fn, fallback) never throws: it returns the value of fn() when fn
   completes and fallback when fn throws, whatever is thrown and whether or not
   debug logging is on. *)
C12_SafeNeverThrows ==
    logTrace.op = "safe" => (~logTrace.threw /\ logTrace.value = logTrace.expect)

\* the last runStep call logged FAIL through error()
LoggedFail ==
    \E i \in 1..Len(stepTrace.calls) :
        stepTrace.calls[i].fn = "error" /\ stepTrace.calls[i].step = "FAIL"

(* C13: runStep resolves with fn's result when fn completes; when fn throws or
   rejects it logs FAIL and, with fatal true, rejects with the same error, with
   fatal false, resolves with null and never rejects; so in the init debug flow
   a failure of the non-fatal patchTemplateLoaders step never keeps the
   registerDebugHooks step from running. *)
C13_RunStepOutcome ==
    /\ stepTrace.op = "runStep" =>
          /\ stepTrace.fn.kind = "returns" =>
                stepTrace.result = [kind |-> "resolved", value |-> stepTrace.fn.value]
          /\ (stepTrace.fn.kind = "throws" /\ stepTrace.fatal) =>
                /\ LoggedFail
                /\ stepTrace.result = [kind |-> "rejected", value |-> stepTrace.fn.value]
          /\ (stepTrace.fn.kind = "throws" /\ ~stepTrace.fatal) =>
                /\ LoggedFail
                /\ stepTrace.result = [kind |-> "resolved", value |-> "null"]
    /\ flow.status = "rejected" => flow.ran[Len(flow.ran)].name # "patchTemplateLoaders"

\* the object patchTemplateLoaders worked on, before and after
PatchedBefore == IF tplTrace.path = "namespaced" THEN tplTrace.api.props ELSE tplTrace.globals
PatchedAfter == IF tplTrace.path = "namespaced" THEN tplApi.props ELSE tplGlobals

\* the property cannot be assigned
NotAssignable(slot) ==
    slot.kind \in {"readonly", "getterOnly", "setterThrows", "notExtensible"}

(* C14: patchTemplateLoaders never throws, whatever the state of the template
   API; a property that cannot be assigned keeps its function and gets a skip
   reason, and patchedGetTemplate / patchedLoadTemplates is true only when the
   property was replaced by the logging wrapper. *)
C14_PatchNeverThrows ==
    (tplTrace.op = "patch" /\ tplTrace.path # "none") =>
        /\ ~tplTrace.threw
        /\ \A p \in TplProps :
              /\ NotAssignable(PatchedBefore[p]) =>
                    (PatchedAfter[p] = PatchedBefore[p] /\ tplTrace.skipped[p] # "")
              /\ tplTrace.patched[p] => PatchedAfter[p].wraps = PatchedBefore[p].wraps + 1

(* C15: the patch only logs: a call of a patched getTemplate or loadTemplates
   calls the host's function exactly once, with the receiver and the arguments
   of the call, and has exactly its outcome, with debug logging on or off and
   also when the logging fails. *)
C15_WrapperOnlyLogs ==
    (tplTrace.op = "call" /\ tplTrace.wraps > 0) =>
        /\ tplTrace.original = <<[receiver |-> tplTrace.receiver, paths |-> tplTrace.paths]>>
        /\ tplTrace.result = tplTrace.outcome

\* the shape the claims call selected: the first active one in the order of
\* ShapeOrder, "default" when none is
RECURSIVE FirstActive(_, _)
FirstActive(order, shapes) ==
    IF order = <<>> \/ ~shapes.present THEN "default"
    ELSE IF Head(order) \in shapes.active THEN Head(order)
    ELSE FirstActive(Tail(order), shapes)

\* the last step was a call of a patched prepareDerivedData
PatchedCall == jumpTrace.op = "call" /\ jumpTrace.wraps > 0

\* the patched function's two tests pass
JumpGatesPass == jumpGame.systemId = TARGET_SYSTEM /\ isRuUi

(* C16: on the target system with an RU UI, after the patched
   prepareDerivedData returns, movement.vjump and movement.hjump are the base
   jump values of the selected shape divided by 4 and rounded to one decimal
   place; the selected shape is the first active one in the order glabro,
   crinos, hispo, lupus, and the default when none is active. *)
C16_JumpsAreQuartered ==
    (PatchedCall /\ JumpGatesPass /\ actor.movement.present) =>
        LET base == BaseJump(FirstActive(ShapeOrder, actor.shapes))
        IN /\ actor.movement.vjump = Num(QuarterTenths(base.vjump))
           /\ actor.movement.hjump = Num(QuarterTenths(base.hjump))

\* a patched call on an actor with lupus and hispo both active left 1.3 / 1.5
C16_Witness ==
    /\ PatchedCall /\ JumpGatesPass
    /\ actor.shapes.active = {"hispo", "lupus"}
    /\ jumpTrace.orig.movement.vjump = Num(20)
    /\ actor.movement.vjump = Num(13)
    /\ actor.movement.hjump = Num(15)

(* C17: the patched prepareDerivedData calls the system's original first and
   returns its result unchanged; on another system or with a UI that is not RU
   it leaves movement as the original left it; in every case the actor differs
   from what the original left in movement.vjump and movement.hjump only. *)
C17_OnlyJumpsChange ==
    PatchedCall =>
        /\ jumpTrace.events[1] = "original"
        /\ jumpTrace.result = jumpTrace.orig.result
        /\ ~JumpGatesPass => actor.movement = jumpTrace.orig.movement
        /\ actor.rest = jumpTrace.orig.rest
        /\ actor.movement.present = jumpTrace.orig.movement.present
        /\ actor.movement.walk = jumpTrace.orig.movement.walk
        /\ ~actor.movement.present => actor.movement = jumpTrace.orig.movement

\* a patched call on the target system with a UI that is no longer RU
C17_Witness ==
    /\ PatchedCall
    /\ jumpGame.systemId = TARGET_SYSTEM
    /\ ~isRuUi
    /\ jumpTrace.orig.movement.vjump = Num(20)
    /\ actor.movement.vjump = Num(20)
    /\ jumpTrace.result = Str

(* C18: the jump patch is never applied twice: in whatever order the i18nInit
   and ready handlers fire and however often applyPatch runs, prepareDerivedData
   is wrapped at most once, a call runs the original exactly once and the
   override at most once (exactly once when the two tests pass), and applying
   the override again to the overridden actor changes nothing. *)
C18_PatchedAtMostOnce ==
    /\ actorProto.wraps <= 1
    /\ jumpTrace.op = "call" =>
          /\ Len(SelectSeq(jumpTrace.events, LAMBDA e : e = "original")) = 1
          /\ Len(SelectSeq(jumpTrace.events, LAMBDA e : e = "override")) =
                IF jumpTrace.wraps > 0 /\ JumpGatesPass THEN 1 ELSE 0
          /\ (jumpTrace.wraps > 0 /\ JumpGatesPass) =>
                applyJumpOverrideInPlace(actor) = [actor |-> actor, changed |-> FALSE]

\* both handlers fired, applyPatch ran a third time, and a call went through
\* the patch
C18_Witness ==
    /\ hooksPending = {}
    /\ patchRuns = MaxPatchRuns
    /\ PatchedCall /\ JumpGatesPass
    /\ actor.movement.present

\* the rows the last patch went through to the end
Processed(i) == notesTrace.outcomes[i] \in {"updated", "rendered", "kept"}

\* what the cell shows, and a hidden cell
Shows(cell, text) == currentText(cell) = text
Hidden(cell) == cell.kind = "nbsp" /\ ~cell.title.present

\* the localization of a string used as a key (looked up without the white space
\* around it) exists and differs from the key
HasLocalization(k) == notesI18n = "ready" /\ Translated(k) /\ Translation(k) # k

(* C19: the level cell of a row the hook has gone through shows String(L) when
   the level L is a finite number greater than 0, shows the localized text when
   L is a string that is not empty and not "0" and whose localization exists
   and differs from the key, and is hidden (content &nbsp;, no title) in every
   other case. *)
C19_LevelDisplayRule ==
    notesTrace.op = "patch" =>
        \A i \in 1..Len(notesRows) :
            Processed(i) =>
                LET cell == notesRows[i].cell
                    key == trim(notesLevel.s)
                IN IF notesLevel.t = "number" /\ notesLevel.n > 0
                   THEN Shows(cell, <<ToString(notesLevel.n)>>)
                   ELSE IF /\ notesLevel.t = "string"
                           /\ key # <<>> /\ key # <<"0">>
                           /\ HasLocalization(key)
                   THEN Shows(cell, Translation(key))
                   ELSE Hidden(cell)

\* the patch replaced the key written by the template with its localization
C19_Witness ==
    /\ notesTrace.op = "patch"
    /\ Len(notesRows) = 1
    /\ notesTrace.outcomes = <<"updated">>
    /\ notesTrace.before[1].cell.text = <<LEVEL_KEY>>
    /\ notesLevel = Level("string", 0, <<LEVEL_KEY>>)
    /\ notesRows[1].cell = CellOf("text", <<"High">>, Title(<<"High">>))

\* merging kept every key the file does not contain, at every level that was merged
RECURSIVE KeysKept(_, _, _)
KeysKept(old, file, new) ==
    \A k \in TrKeys :
        /\ file[k].t = "absent" => new[k] = old[k]
        /\ (file[k].t = "object" /\ old[k].t = "object") =>
              (new[k].t = "object" /\ KeysKept(old[k].keys, file[k].keys, new[k].keys))

\* the store holds what the file holds
RECURSIVE FileMerged(_, _)
FileMerged(file, new) ==
    \A k \in TrKeys :
        /\ file[k].t \in {"leaf", "array"} => new[k] = file[k]
        /\ file[k].t = "object" => (new[k].t = "object" /\ FileMerged(file[k].keys, new[k].keys))

(* C20: the loader requests lang/module-ru.json when the language is "ru" and
   lang/module-en.json otherwise; when that load fails it requests
   lang/module-en.json; when that fails too the store is left as it was and the
   failure is a warning, not an exception for the host; after a load that
   succeeded the keys of the file are in game.i18n.translations and no key the
   file does not contain was removed. *)
C20_ModuleTranslationsLoad ==
    trTrace.op = "load" =>
        LET chosen == IF i18nGetLang = "ru" THEN MODULE_RU ELSE MODULE_EN
        IN /\ trTrace.requests[1] = chosen
           /\ trTrace.outcome = "chosen" => trTrace.requests = <<chosen>>
           /\ trTrace.outcome # "chosen" => trTrace.requests = <<chosen, MODULE_EN>>
           /\ ~trTrace.thrown
           /\ trTrace.outcome = "failed" =>
                 /\ trStore = trTrace.before
                 /\ trTrace.calls # <<>>
                 /\ trTrace.calls[Len(trTrace.calls)] =
                       [level |-> "warn", text |-> <<I18N_TAG, "Module i18n load failed">>]
           /\ trTrace.outcome # "failed" =>
                 /\ trStore.present
                 /\ trTrace.data.t = "object" =>
                       /\ KeysKept(trTrace.before.keys, trTrace.data.keys, trStore.keys)
                       /\ FileMerged(trTrace.data.keys, trStore.keys)
                 /\ trTrace.data.t # "object" => trStore.keys = trTrace.before.keys

\* the RU file failed, the EN file was merged into an object of the store
C20_Witness ==
    /\ trTrace.op = "load"
    /\ i18nGetLang = "ru"
    /\ trTrace.outcome = "fallback"
    /\ trTrace.before.keys["a"] = Obj([a |-> AbsentNode, b |-> Leaf("one")])
    /\ trStore.keys["a"] = Obj([a |-> Leaf("two"), b |-> Leaf("one")])

(***************************************************************************)
(* The debounce in time                                                    *)
(***************************************************************************)
\* the writes the debounce timer issued
TimerWrites == {i \in DOMAIN debWrites : debWrites[i].source = "timer"}

\* the position fields of the record setSavedPosition stores for a position
StoredPosition(p) ==
    LET r == Payload(normalizeAppPosition(p), Absent, Absent) IN
    <<r.left, r.top, r.width, r.height>>

\* a timer write comes from the timer of the last call made before it, not
\* sooner than SAVE_DEBOUNCE_MS after that call, and carries the position of
\* the sheet as it was when the timer ran
WriteOfLastCall(w) ==
    /\ w.timer = w.calls
    /\ \A k \in 1..w.calls : w.at >= debCalls[k] + SAVE_DEBOUNCE_MS
    /\ <<w.payload.left, w.payload.top, w.payload.width, w.payload.height>>
           = StoredPosition(w.seen)

\* at most one timer is pending: that of the last call, due SAVE_DEBOUNCE_MS
\* after it, and with no write yet
OneTimerPending ==
    /\ Cardinality(debTimer.pending) <= 1
    /\ \A t \in debTimer.pending :
           /\ t.id = Len(debCalls)
           /\ t.due = debCalls[t.id] + SAVE_DEBOUNCE_MS
           /\ \A i \in TimerWrites : debWrites[i].timer # t.id

\* with no timer pending, the last call has its write
LastCallWritten ==
    (debTimer.pending = {} /\ debCalls # <<>>)
        => \E i \in TimerWrites : debWrites[i].timer = Len(debCalls)

\* a call followed by another one less than SAVE_DEBOUNCE_MS later has no write,
\* and no call has two
OneWritePerBurst ==
    /\ \A k \in 1..(Len(debCalls) - 1) :
           debCalls[k + 1] - debCalls[k] < SAVE_DEBOUNCE_MS
               => \A i \in TimerWrites : debWrites[i].timer # k
    /\ \A i, j \in TimerWrites : debWrites[i].timer = debWrites[j].timer => i = j

DebounceSafe ==
    /\ \A i \in TimerWrites : WriteOfLastCall(debWrites[i])
    /\ OneTimerPending
    /\ LastCallWritten
    /\ OneWritePerBurst

\* C21 (as amended): for one sheet instance, every wrapped setPosition call
\* clears the pending timer and arms a new one due 250 ms later, so that a burst
\* of calls each made before the timer of the one before has run (in particular
\* calls less than 250 ms apart) causes exactly one write by the timer: it is
\* issued when the timer of the last call of the burst runs, which is not
\* sooner than 250 ms after that call, it carries the position of the sheet as
\* it is at that moment, and no timer write is issued while the timer of a
\* later call is pending.  A pending timer does run in the end.
C21_DebouncedPersistence ==
    /\ []DebounceSafe
    /\ (debTimer.pending # {}) ~> (debTimer.pending = {})

\* C21 witness: a burst of two calls less than 250 ms apart got its single
\* write, the sheet having moved between the last call and the write
C21_Witness ==
    /\ debTimer.pending = {}
    /\ \E i \in TimerWrites :
           LET w == debWrites[i] IN
           /\ w.timer = 2
           /\ debCalls[2] - debCalls[1] < SAVE_DEBOUNCE_MS
           /\ w.seen \in HostPositions
           /\ Cardinality(TimerWrites) = 1

\* C21 as stated: every timer write is issued exactly 250 ms after the last
\* call made before it, and a call followed by no other call for 250 ms or more
\* has its write before the next call
C21_WriteExactlyAfter250 ==
    /\ \A i \in TimerWrites :
           debWrites[i].at = debCalls[debWrites[i].calls] + SAVE_DEBOUNCE_MS
    /\ \A k \in 1..(Len(debCalls) - 1) :
           debCalls[k + 1] - debCalls[k] >= SAVE_DEBOUNCE_MS
               => \E i \in TimerWrites : debWrites[i].timer = k

====
